---- MODULE Spec2Model ----
(***************************************************************************)
(* Hybrid recipe recommender of the qwak backend: the lexical (TF-IDF)     *)
(* backend, the dense (embedding) backend, the HybridScorer weights and    *)
(* HybridRecommender.get_recommendations, which merges the two candidate   *)
(* lists.                                                                  *)
(*                                                                         *)
(* Conventions.  A Python str is a tuple of one-character strings.  A      *)
(* Python dict is a function whose DOMAIN is its key set.  An optional     *)
(* value is a set: {} is None, {x} is the value x.  A float weight is a    *)
(* pair <<numerator, denominator>>; a similarity score is an integer.      *)
(***************************************************************************)
EXTENDS Integers, Sequences, FiniteSets, TLC

VARIABLES settings, scorer, hybrid, tfidf, embed, pc, args,
          tfidf_results, embedding_results, output,
          hang, norm, filt, manager, threads, heap, cache, backend

\* the variables of the pure-function calls and of the ModelManager
aux == <<hang, norm, filt, manager, threads, heap, cache, backend>>

\* the object store of the copy semantics, the CacheManager, and one backend
\* recommender with its model loader
stores == <<heap, cache, backend>>

\* the variables of the recommender service and its callers
service == <<settings, scorer, hybrid, tfidf, embed, pc, args,
             tfidf_results, embedding_results, output>>

vars == <<settings, scorer, hybrid, tfidf, embed, pc, args,
          tfidf_results, embedding_results, output,
          hang, norm, filt, manager, threads, heap, cache, backend>>

(***************************************************************************)
(* Bounds                                                                  *)
(***************************************************************************)
MaxResults == 2

MaxWeightQuarters == 4

None == {}

Some(x) == {x}

TheValue(o) == CHOOSE x \in o : TRUE

(***************************************************************************)
(* Python str, dict and list primitives                                    *)
(***************************************************************************)
lower_char(c) ==
    CASE c = "A" -> "a"
      [] c = "B" -> "b"
      [] c = "I" -> "i"
      [] c = "F" -> "f"
      [] c = "V" -> "v"
      [] c = "G" -> "g"
      [] OTHER -> c

lower(s) == [i \in 1..Len(s) |-> lower_char(s[i])]

RECURSIVE lstrip(_)
lstrip(s) == IF s # <<>> /\ Head(s) = " " THEN lstrip(Tail(s)) ELSE s

RECURSIVE rstrip(_)
rstrip(s) ==
    IF s # <<>> /\ s[Len(s)] = " " THEN rstrip(SubSeq(s, 1, Len(s) - 1)) ELSE s

strip(s) == rstrip(lstrip(s))

RECURSIVE join(_, _)
join(sep, list) ==
    IF list = <<>> THEN <<>>
    ELSE IF Len(list) = 1 THEN list[1]
    ELSE list[1] \o sep \o join(sep, Tail(list))

\* Python "sub in s" for str
contains(s, sub) ==
    \E i \in 0..(Len(s) - Len(sub)) : SubSeq(s, i + 1, i + Len(sub)) = sub

\* dict.get(k, default)
Get(d, k, default) == IF k \in DOMAIN d THEN d[k] ELSE default

\* d[k] = v
Put(d, k, v) == [x \in (DOMAIN d) \cup {k} |-> IF x = k THEN v ELSE d[x]]

\* list[:n], n may be negative as in Python
Take(list, n) ==
    IF n >= 0 THEN SubSeq(list, 1, IF n < Len(list) THEN n ELSE Len(list))
    ELSE SubSeq(list, 1, IF Len(list) + n > 0 THEN Len(list) + n ELSE 0)

RECURSIVE InsertDesc(_, _, _, _)
InsertDesc(sorted, x, field, default) ==
    IF sorted = <<>> THEN <<x>>
    ELSE IF Get(Head(sorted), field, default) >= Get(x, field, default)
         THEN <<Head(sorted)>> \o InsertDesc(Tail(sorted), x, field, default)
         ELSE <<x>> \o sorted

RECURSIVE SortDescFrom(_, _, _, _)
SortDescFrom(sorted, list, field, default) ==
    IF list = <<>> THEN sorted
    ELSE SortDescFrom(InsertDesc(sorted, Head(list), field, default),
                      Tail(list), field, default)

\* list.sort(key=lambda x: x.get(field, default), reverse=True): stable
SortDesc(list, field, default) == SortDescFrom(<<>>, list, field, default)

(***************************************************************************)
(* Float weights as fractions                                              *)
(***************************************************************************)
Frac(n, d) == <<n, d>>

FracAdd(x, y) == <<x[1] * y[2] + y[1] * x[2], x[2] * y[2]>>

FracDiv(x, y) == <<x[1] * y[2], x[2] * y[1]>>

FracIsZero(x) == x[1] = 0

FracIsPositive(x) == x[1] * x[2] > 0

FracEq(x, y) == x[1] * y[2] = y[1] * x[2]

FracGeqZero(x) == x[1] * x[2] >= 0

FracOne == <<1, 1>>

FracHalf == <<1, 2>>

FracZero == <<0, 1>>

(***************************************************************************)
(* core/config.py: Settings                                                *)
(***************************************************************************)
DefaultSettings == [tfidf_weight |-> Frac(4, 10), embedding_weight |-> Frac(6, 10)]

\* configurable weights: 0, 0.25, 0.5, ...
Weights == {Frac(n, 4) : n \in 0..MaxWeightQuarters}

(***************************************************************************)
(* utils/similarity.py: HybridScorer.__init__                              *)
(***************************************************************************)
\* Python "arg or default" on an optional float
PyOr(arg, default) ==
    IF arg = None \/ FracIsZero(TheValue(arg)) THEN default ELSE TheValue(arg)

HybridScorer(tfidf_weight, embedding_weight, s) ==
    LET tw == PyOr(tfidf_weight, s.tfidf_weight)
        ew == PyOr(embedding_weight, s.embedding_weight)
        total_weight == FracAdd(tw, ew)
    IN  IF FracIsPositive(total_weight)
        THEN [tfidf_weight |-> FracDiv(tw, total_weight),
              embedding_weight |-> FracDiv(ew, total_weight),
              normalize_scores |-> TRUE]
        ELSE [tfidf_weight |-> FracHalf,
              embedding_weight |-> FracHalf,
              normalize_scores |-> TRUE]

create_hybrid_scorer(tfidf_weight, embedding_weight, s) ==
    HybridScorer(tfidf_weight, embedding_weight, s)

(***************************************************************************)
(* The corpus: recipe metadata rows as written by the training step.  Row  *)
(* order and id order differ, and two rows share a title.                  *)
(***************************************************************************)
recipe_metadata ==
    << [id |-> 12, title |-> <<"s">>, ingredients_cleaned |-> <<"a">>,
        cuisine |-> <<"I">>, diet_types |-> <<"V", ",", "G", "F">>,
        cooking_time |-> 20, difficulty |-> <<"e">>],
       [id |-> 10, title |-> <<"s">>, ingredients_cleaned |-> <<"a", ",", "b">>,
        cuisine |-> <<"i">>, diet_types |-> <<"G", "F">>,
        cooking_time |-> 30, difficulty |-> <<"m">>],
       [id |-> 11, title |-> <<"t">>, ingredients_cleaned |-> <<"b">>,
        cuisine |-> <<"f">>, diet_types |-> <<>>,
        cooking_time |-> 10, difficulty |-> <<"e">>] >>

\* the ingredient terms of a corpus row
RowTerms(recipe) ==
    {recipe.ingredients_cleaned[i] : i \in 1..Len(recipe.ingredients_cleaned)} \ {","}

(***************************************************************************)
(* models/recommender_tfidf.py and models/recommender_embed.py             *)
(***************************************************************************)
RECURSIVE CleanedIngredients(_)
CleanedIngredients(ingredients) ==
    IF ingredients = <<>> THEN <<>>
    ELSE LET cleaned == strip(lower(Head(ingredients)))
         IN  (IF cleaned # <<>> THEN <<cleaned>> ELSE <<>>)
             \o CleanedIngredients(Tail(ingredients))

tfidf_preprocess_ingredients(ingredients) ==
    join(<<",">>, CleanedIngredients(ingredients))

embed_preprocess_ingredients(ingredients) ==
    join(<<" ">>, CleanedIngredients(ingredients))

\* vectorizer.transform + cosine_similarity against one corpus row: the
\* number of the row's terms that occur in the query text
cosine_similarity(ingredient_text, recipe) ==
    Cardinality({t \in RowTerms(recipe) : contains(ingredient_text, <<t>>)})

\* encode + faiss inner product against one corpus row: a row term that is
\* in the query counts 3, a row term that is only related to the query counts
\* 1 (the embedding places related terms close together), and a row without
\* any query term has a negative inner product.  The dense ranking therefore
\* differs from the lexical one.
faiss_search(ingredient_text, recipe) ==
    LET part(t) == IF t \notin RowTerms(recipe) THEN 0
                   ELSE IF contains(ingredient_text, <<t>>) THEN 3 ELSE 1
    IN  part("a") + part("b") - 2

tfidf_compute_similarity_scores(ingredients) ==
    LET ingredient_text == tfidf_preprocess_ingredients(ingredients)
    IN  IF ingredient_text = <<>>
        THEN [idx \in 1..Len(recipe_metadata) |-> 0]
        ELSE [idx \in 1..Len(recipe_metadata) |->
                 cosine_similarity(ingredient_text, recipe_metadata[idx])]

embed_compute_similarity_scores(ingredients) ==
    LET ingredient_text == embed_preprocess_ingredients(ingredients)
    IN  IF ingredient_text = <<>>
        THEN [idx \in 1..Len(recipe_metadata) |-> 0]
        ELSE [idx \in 1..Len(recipe_metadata) |->
                 faiss_search(ingredient_text, recipe_metadata[idx])]

\* "if flt and ..." : None and the empty string are falsy
Truthy(flt) == flt # None /\ TheValue(flt) # <<>>

\* the filter tests of the candidate loop: TRUE when the row is kept
PassesFilters(recipe, cuisine_filter, diet_filter) ==
    /\ ~(Truthy(cuisine_filter)
         /\ lower(Get(recipe, "cuisine", <<>>)) # lower(TheValue(cuisine_filter)))
    /\ ~(Truthy(diet_filter)
         /\ ~contains(lower(Get(recipe, "diet_types", <<>>)),
                      lower(TheValue(diet_filter))))

\* the dict appended for row idx (1-based here, idx - 1 in the source)
Recommendation(idx, score) ==
    LET recipe == recipe_metadata[idx]
    IN  [recipe_id |-> Get(recipe, "id", idx - 1),
         title |-> Get(recipe, "title", <<"U">>),
         ingredients |-> Get(recipe, "ingredients_cleaned", <<>>),
         cuisine |-> Get(recipe, "cuisine", <<"U">>),
         diet_types |-> Get(recipe, "diet_types", <<>>),
         cooking_time |-> Get(recipe, "cooking_time", 0),
         difficulty |-> Get(recipe, "difficulty", <<"U">>),
         similarity_score |-> score,
         match_percentage |-> score * 100]

\* the candidate loop with the min_score test skipped for a filtered query
RECURSIVE CandidatesFilteredKeepAll(_, _, _, _, _)
CandidatesFilteredKeepAll(idx, similarities, min_score, cuisine_filter, diet_filter) ==
    IF idx > Len(similarities) THEN <<>>
    ELSE (IF /\ (Truthy(cuisine_filter) \/ Truthy(diet_filter)
                   \/ ~(similarities[idx] < min_score))
             /\ PassesFilters(recipe_metadata[idx], cuisine_filter, diet_filter)
          THEN <<Recommendation(idx, similarities[idx])>>
          ELSE <<>>)
         \o CandidatesFilteredKeepAll(idx + 1, similarities, min_score,
                                      cuisine_filter, diet_filter)

RECURSIVE Candidates(_, _, _, _, _)
Candidates(idx, similarities, min_score, cuisine_filter, diet_filter) ==
    IF idx > Len(similarities) THEN <<>>
    ELSE (IF /\ ~(similarities[idx] < min_score)
             /\ PassesFilters(recipe_metadata[idx], cuisine_filter, diet_filter)
          THEN <<Recommendation(idx, similarities[idx])>>
          ELSE <<>>)
         \o Candidates(idx + 1, similarities, min_score, cuisine_filter, diet_filter)

tfidf_get_top_recommendations(ingredients, top_n, min_score, cuisine_filter, diet_filter) ==
    LET similarities == tfidf_compute_similarity_scores(ingredients)
        recommendations ==
            Candidates(1, similarities, min_score, cuisine_filter, diet_filter)
    IN  Take(SortDesc(recommendations, "similarity_score", 0), top_n)

embed_get_top_recommendations(ingredients, top_n, min_score, cuisine_filter, diet_filter) ==
    IF embed_preprocess_ingredients(ingredients) = <<>> THEN <<>>
    ELSE LET similarities == embed_compute_similarity_scores(ingredients)
             recommendations ==
                 Candidates(1, similarities, min_score, cuisine_filter, diet_filter)
         IN  Take(SortDesc(recommendations, "similarity_score", 0), top_n)

(***************************************************************************)
(* models/hybrid_recommender.py: HybridRecommender                         *)
(***************************************************************************)
FracMulInt(x, n) == <<x[1] * n, x[2]>>

FracGeq(x, y) == x[1] * y[2] >= y[1] * x[2]

RECURSIVE InsertDescFrac(_, _, _, _)
InsertDescFrac(sorted, x, field, default) ==
    IF sorted = <<>> THEN <<x>>
    ELSE IF FracGeq(Get(Head(sorted), field, default), Get(x, field, default))
         THEN <<Head(sorted)>> \o InsertDescFrac(Tail(sorted), x, field, default)
         ELSE <<x>> \o sorted

RECURSIVE SortDescFracFrom(_, _, _, _)
SortDescFracFrom(sorted, list, field, default) ==
    IF list = <<>> THEN sorted
    ELSE SortDescFracFrom(InsertDescFrac(sorted, Head(list), field, default),
                          Tail(list), field, default)

\* the same stable descending sort, on a key that is a float
SortDescFrac(list, field, default) == SortDescFracFrom(<<>>, list, field, default)

\* __init__ and _initialize_models: tfidf_ok / embedding_ok tell whether
\* get_tfidf_recommender() / get_embedding_recommender() returned
HybridRecommenderInit(s, tfidf_ok, embedding_ok) ==
    [tfidf_recommender |-> tfidf_ok,
     embedding_recommender |-> embedding_ok,
     hybrid_scorer |-> Some(create_hybrid_scorer(Some(s.tfidf_weight),
                                                 Some(s.embedding_weight), s)),
     tfidf_weight |-> s.tfidf_weight,
     embedding_weight |-> s.embedding_weight]

\* result_copy of a TF-IDF result
TfidfCopy(result) ==
    Put(Put(result, "tfidf_score", Get(result, "match_score", 0)), "source", "tfidf")

\* result_copy of an embedding result
EmbeddingCopy(result) ==
    Put(Put(result, "embedding_score", Get(result, "match_score", 0)),
        "source", "embedding")

AllResults(tr, er) ==
    [i \in 1..Len(tr) |-> TfidfCopy(tr[i])] \o [i \in 1..Len(er) |-> EmbeddingCopy(er[i])]

\* recipe_id = result.get('id')
ResultKey(result) == IF "id" \in DOMAIN result THEN Some(result["id"]) ELSE None

\* the branch taken when recipe_id is already in unique_results
CombineInto(existing, result, h) ==
    LET e1 == IF result["source"] = "tfidf"
              THEN Put(existing, "tfidf_score", Get(result, "tfidf_score", 0))
              ELSE Put(existing, "embedding_score", Get(result, "embedding_score", 0))
        tfidf_score == Get(e1, "tfidf_score", 0)
        embedding_score == Get(e1, "embedding_score", 0)
    IN  Put(e1, "match_score",
            FracAdd(FracMulInt(h.tfidf_weight, tfidf_score),
                    FracMulInt(h.embedding_weight, embedding_score)))

\* the merge loop without the "recipe_id in unique_results" test: every
\* result becomes an entry of its own
UniqueStepNoDedup(unique_results, result, h) ==
    Append(unique_results, <<ResultKey(result), result>>)

\* one iteration of "for result in all_results"; unique_results is an
\* insertion-ordered dict, kept as a sequence of <<key, value>> pairs
UniqueStep(unique_results, result, h) ==
    LET recipe_id == ResultKey(result)
    IN  IF \E i \in 1..Len(unique_results) : unique_results[i][1] = recipe_id
        THEN [i \in 1..Len(unique_results) |->
                 IF unique_results[i][1] = recipe_id
                 THEN <<recipe_id, CombineInto(unique_results[i][2], result, h)>>
                 ELSE unique_results[i]]
        ELSE Append(unique_results, <<recipe_id, result>>)

RECURSIVE UniqueResults(_, _, _)
UniqueResults(unique_results, all_results, h) ==
    IF all_results = <<>> THEN unique_results
    ELSE UniqueResults(UniqueStep(unique_results, Head(all_results), h),
                       Tail(all_results), h)

\* list(unique_results.values()) before the sort
CombinedResults(tr, er, h) ==
    LET unique_results == UniqueResults(<<>>, AllResults(tr, er), h)
    IN  [i \in 1..Len(unique_results) |-> unique_results[i][2]]

\* lines 113-154: merge, sort by match_score, truncate
MergeResults(tr, er, max_results, h) ==
    Take(SortDescFrac(CombinedResults(tr, er, h), "match_score", FracZero), max_results)

is_available(h) == h.tfidf_recommender \/ h.embedding_recommender

get_model_info(h) ==
    [tfidf_available |-> h.tfidf_recommender,
     embedding_available |-> h.embedding_recommender,
     hybrid_scorer_available |-> h.hybrid_scorer # None,
     tfidf_weight |-> h.tfidf_weight,
     embedding_weight |-> h.embedding_weight]

(***************************************************************************)
(* State machine.  Each slot is one caller of get_recommendations; the     *)
(* two backend calls and the merge are its steps, so calls of different    *)
(* slots interleave.  tfidf and embed are the global singleton backends:   *)
(* artifacts tells whether their model files load, encoder_ok whether the  *)
(* embedding model's encode call succeeds.                                 *)
(***************************************************************************)
Slots == {"q1", "q2"}

IngredientLists ==
    { <<>>,
      << <<>>, <<" ">> >>,
      << <<"A", " ">> >>,
      << <<"b">>, <<"A">> >> }

FilterPairs ==
    { <<None, None>>, <<Some(<<"I">>), None>>, <<None, Some(<<"g">>)>>,
      <<None, Some(<<"V">>)>>, <<Some(<<"F">>), None>> }

NoArgs == [ingredients |-> <<>>, cuisine_filter |-> None, diet_filter |-> None,
           max_results |-> 0]

NoOutput == [status |-> "none", recommendations |-> <<>>]

TfidfStates ==
    { [present |-> FALSE, artifacts |-> FALSE],
      [present |-> TRUE, artifacts |-> FALSE],
      [present |-> TRUE, artifacts |-> TRUE] }

EmbedStates ==
    { [present |-> FALSE, artifacts |-> FALSE, encoder_ok |-> FALSE],
      [present |-> TRUE, artifacts |-> FALSE, encoder_ok |-> FALSE],
      [present |-> TRUE, artifacts |-> TRUE, encoder_ok |-> FALSE],
      [present |-> TRUE, artifacts |-> TRUE, encoder_ok |-> TRUE] }

\* no object store, cache or separate backend in use
StoresIdle ==
    /\ heap = None
    /\ cache = None
    /\ backend = None

\* nothing called yet outside the recommender service
AuxIdle ==
    /\ hang = FALSE
    /\ norm = None
    /\ filt = None
    /\ manager = None
    /\ threads = None
    /\ StoresIdle

IdleSlots ==
    /\ pc = [q \in Slots |-> "idle"]
    /\ args = [q \in Slots |-> NoArgs]
    /\ tfidf_results = [q \in Slots |-> <<>>]
    /\ embedding_results = [q \in Slots |-> <<>>]
    /\ output = [q \in Slots |-> NoOutput]

\* the service after HybridRecommender() was built from the default settings
Init ==
    /\ settings = DefaultSettings
    /\ scorer = None
    /\ \E t \in TfidfStates, e \in EmbedStates :
          /\ hybrid = Some(HybridRecommenderInit(DefaultSettings, t.present, e.present))
          /\ tfidf = [artifacts |-> t.artifacts, is_loaded |-> FALSE]
          /\ embed = [artifacts |-> e.artifacts, encoder_ok |-> e.encoder_ok,
                      is_loaded |-> FALSE]
    /\ IdleSlots
    /\ AuxIdle

\* a caller enters get_recommendations
Start(q) ==
    /\ pc[q] = "idle"
    /\ hybrid # None
    /\ \E ingredients \in IngredientLists, f \in FilterPairs, m \in 1..MaxResults :
          args' = [args EXCEPT ![q] = [ingredients |-> ingredients,
                                       cuisine_filter |-> f[1],
                                       diet_filter |-> f[2],
                                       max_results |-> m]]
    /\ pc' = [pc EXCEPT ![q] = "tfidf"]
    /\ UNCHANGED <<settings, scorer, hybrid, tfidf, embed,
                   tfidf_results, embedding_results, output>>
    /\ UNCHANGED aux

\* the TF-IDF call when get_top_recommendations does not wait for its own
\* lazy load: the call that triggers the load fails, later calls succeed
CallTfidfBeforeLoad(q) ==
    /\ pc[q] = "tfidf"
    /\ LET h == TheValue(hybrid)
           loads == h.tfidf_recommender /\ (tfidf.is_loaded \/ tfidf.artifacts)
       IN  /\ tfidf' = [tfidf EXCEPT !.is_loaded = tfidf.is_loaded \/ loads]
           /\ tfidf_results' =
                 [tfidf_results EXCEPT ![q] =
                     IF h.tfidf_recommender /\ tfidf.is_loaded
                     THEN tfidf_get_top_recommendations(
                              args[q].ingredients, args[q].max_results * 2, 0,
                              args[q].cuisine_filter, args[q].diet_filter)
                     ELSE <<>>]
    /\ pc' = [pc EXCEPT ![q] = "embed"]
    /\ UNCHANGED <<settings, scorer, hybrid, embed, args, embedding_results, output>>
    /\ UNCHANGED aux

\* lines 86-97: the TF-IDF call; an exception leaves tfidf_results = []
CallTfidf(q) ==
    /\ pc[q] = "tfidf"
    /\ LET h == TheValue(hybrid)
           loads == h.tfidf_recommender /\ (tfidf.is_loaded \/ tfidf.artifacts)
       IN  /\ tfidf' = [tfidf EXCEPT !.is_loaded = tfidf.is_loaded \/ loads]
           /\ tfidf_results' =
                 [tfidf_results EXCEPT ![q] =
                     IF loads
                     THEN tfidf_get_top_recommendations(
                              args[q].ingredients, args[q].max_results * 2, 0,
                              args[q].cuisine_filter, args[q].diet_filter)
                     ELSE <<>>]
    /\ pc' = [pc EXCEPT ![q] = "embed"]
    /\ UNCHANGED <<settings, scorer, hybrid, embed, args, embedding_results, output>>
    /\ UNCHANGED aux

\* line 103 of recommender_embed.py: model.encode is called without a timeout;
\* when the encoder hangs, the call that reaches it never returns
EncodeHangs(q) ==
    /\ hang
    /\ TheValue(hybrid).embedding_recommender
    /\ embed.is_loaded \/ embed.artifacts
    /\ embed_preprocess_ingredients(args[q].ingredients) # <<>>

\* the embedding call without the except clause: an exception of the backend
\* leaves get_recommendations at once
CallEmbedNoCatch(q) ==
    /\ pc[q] = "embed"
    /\ ~EncodeHangs(q)
    /\ LET h == TheValue(hybrid)
           loads == h.embedding_recommender /\ (embed.is_loaded \/ embed.artifacts)
           encodes == embed.encoder_ok
                      \/ embed_preprocess_ingredients(args[q].ingredients) = <<>>
           raises == h.embedding_recommender /\ ~(loads /\ encodes)
       IN  /\ embed' = [embed EXCEPT !.is_loaded = embed.is_loaded \/ loads]
           /\ embedding_results' =
                 [embedding_results EXCEPT ![q] =
                     IF loads /\ encodes
                     THEN embed_get_top_recommendations(
                              args[q].ingredients, args[q].max_results * 2, 0,
                              args[q].cuisine_filter, args[q].diet_filter)
                     ELSE <<>>]
           /\ pc' = [pc EXCEPT ![q] = IF raises THEN "done" ELSE "merge"]
           /\ output' = [output EXCEPT ![q] =
                            IF raises THEN [status |-> "raised", recommendations |-> <<>>]
                            ELSE output[q]]
    /\ UNCHANGED <<settings, scorer, hybrid, tfidf, args, tfidf_results>>
    /\ UNCHANGED aux

\* lines 99-110: the embedding call; an exception leaves embedding_results = []
CallEmbed(q) ==
    /\ pc[q] = "embed"
    /\ ~EncodeHangs(q)
    /\ LET h == TheValue(hybrid)
           loads == h.embedding_recommender /\ (embed.is_loaded \/ embed.artifacts)
           encodes == embed.encoder_ok
                      \/ embed_preprocess_ingredients(args[q].ingredients) = <<>>
       IN  /\ embed' = [embed EXCEPT !.is_loaded = embed.is_loaded \/ loads]
           /\ embedding_results' =
                 [embedding_results EXCEPT ![q] =
                     IF loads /\ encodes
                     THEN embed_get_top_recommendations(
                              args[q].ingredients, args[q].max_results * 2, 0,
                              args[q].cuisine_filter, args[q].diet_filter)
                     ELSE <<>>]
    /\ pc' = [pc EXCEPT ![q] = "merge"]
    /\ UNCHANGED <<settings, scorer, hybrid, tfidf, args, tfidf_results, output>>
    /\ UNCHANGED aux

\* the merge started as soon as the TF-IDF call returned, without waiting for
\* the embedding call
MergeEarly(q) ==
    /\ pc[q] \in {"embed", "merge"}
    /\ output' = [output EXCEPT ![q] =
                     [status |-> "returned",
                      recommendations |->
                          MergeResults(tfidf_results[q], embedding_results[q],
                                       args[q].max_results, TheValue(hybrid))]]
    /\ pc' = [pc EXCEPT ![q] = "done"]
    /\ UNCHANGED <<settings, scorer, hybrid, tfidf, embed, args,
                   tfidf_results, embedding_results>>
    /\ UNCHANGED aux

\* lines 112-159: merge, sort, truncate and return
Merge(q) ==
    /\ pc[q] = "merge"
    /\ output' = [output EXCEPT ![q] =
                     [status |-> "returned",
                      recommendations |->
                          MergeResults(tfidf_results[q], embedding_results[q],
                                       args[q].max_results, TheValue(hybrid))]]
    /\ pc' = [pc EXCEPT ![q] = "done"]
    /\ UNCHANGED <<settings, scorer, hybrid, tfidf, embed, args,
                   tfidf_results, embedding_results>>
    /\ UNCHANGED aux

\* the caller drops the result; the slot is free for the next query
Return(q) ==
    /\ pc[q] = "done"
    /\ pc' = [pc EXCEPT ![q] = "idle"]
    /\ args' = [args EXCEPT ![q] = NoArgs]
    /\ tfidf_results' = [tfidf_results EXCEPT ![q] = <<>>]
    /\ embedding_results' = [embedding_results EXCEPT ![q] = <<>>]
    /\ output' = [output EXCEPT ![q] = NoOutput]
    /\ UNCHANGED <<settings, scorer, hybrid, tfidf, embed>>
    /\ UNCHANGED aux

Next ==
    \E q \in Slots :
        \/ Start(q)
        \/ CallTfidf(q)
        \/ CallEmbed(q)
        \/ Merge(q)
        \/ Return(q)

Spec == Init /\ [][Next]_vars

(***************************************************************************)
(* Weights: the settings are configured (QWAK_TFIDF_WEIGHT,                *)
(* QWAK_EMBEDDING_WEIGHT), then the recommender is built from them, a      *)
(* caller may build a scorer with custom weights, and queries run.         *)
(***************************************************************************)
ConfiguredSettings ==
    {DefaultSettings}
    \cup {[tfidf_weight |-> a, embedding_weight |-> b] : a \in Weights, b \in Weights}

OptionalWeights == {None} \cup {Some(w) : w \in Weights}

InitWeights ==
    /\ settings \in ConfiguredSettings
    /\ scorer = None
    /\ hybrid = None
    /\ tfidf = [artifacts |-> TRUE, is_loaded |-> FALSE]
    /\ embed = [artifacts |-> TRUE, encoder_ok |-> TRUE, is_loaded |-> FALSE]
    /\ IdleSlots
    /\ AuxIdle

\* HybridRecommender(): both backend singletons are obtained
ConstructHybrid ==
    /\ hybrid = None
    /\ hybrid' = Some(HybridRecommenderInit(settings, TRUE, TRUE))
    /\ UNCHANGED <<settings, scorer, tfidf, embed, pc, args,
                   tfidf_results, embedding_results, output>>
    /\ UNCHANGED aux

\* create_hybrid_scorer(tfidf_weight, embedding_weight) with custom weights;
\* the arguments are kept next to the scorer they produced
NewScorer ==
    /\ scorer = None
    /\ \E a \in OptionalWeights, b \in OptionalWeights :
          scorer' = Some([tfidf_weight_arg |-> a, embedding_weight_arg |-> b,
                          obj |-> create_hybrid_scorer(a, b, settings)])
    /\ UNCHANGED <<settings, hybrid, tfidf, embed, pc, args,
                   tfidf_results, embedding_results, output>>
    /\ UNCHANGED aux

NextWeights ==
    \/ ConstructHybrid
    \/ NewScorer
    \/ Start("q1")
    \/ CallTfidf("q1")
    \/ CallEmbed("q1")
    \/ Merge("q1")
    \/ Return("q1")

SpecWeights == InitWeights /\ [][NextWeights]_vars

(***************************************************************************)
(* Vocabulary of the properties                                            *)
(***************************************************************************)
Ids(list) == [i \in 1..Len(list) |-> list[i]["recipe_id"]]

IdSet(list) == {list[i]["recipe_id"] : i \in 1..Len(list)}

Min(a, b) == IF a < b THEN a ELSE b

\* the query has no ingredient left after cleaning
Degenerate(ingredients) == CleanedIngredients(ingredients) = <<>>

\* the lexical backend answers queries: it exists and its artifacts load
LexicalAvailable == hybrid # None /\ TheValue(hybrid).tfidf_recommender /\ tfidf.artifacts

\* the dense backend answers the query of slot q
DenseAvailable(q) ==
    /\ hybrid # None
    /\ TheValue(hybrid).embedding_recommender
    /\ embed.artifacts
    /\ (embed.encoder_ok \/ Degenerate(args[q].ingredients))

Normalised(tw, ew) ==
    /\ FracGeqZero(tw)
    /\ FracGeqZero(ew)
    /\ FracEq(FracAdd(tw, ew), FracOne)

\* C1: for every configured pair of non-negative weights, the effective
\* weights are non-negative and sum to 1, both in a constructed HybridScorer
\* and in the weights get_recommendations multiplies the scores by (the ones
\* get_model_info reports).
C1_EffectiveWeightsSumToOne ==
    /\ scorer # None =>
          Normalised(TheValue(scorer).obj.tfidf_weight,
                     TheValue(scorer).obj.embedding_weight)
    /\ hybrid # None =>
          LET hs == TheValue(TheValue(hybrid).hybrid_scorer)
          IN  Normalised(hs.tfidf_weight, hs.embedding_weight)
    /\ \A q \in Slots :
          pc[q] = "done" =>
             /\ Normalised(TheValue(hybrid).tfidf_weight,
                           TheValue(hybrid).embedding_weight)
             /\ Normalised(get_model_info(TheValue(hybrid)).tfidf_weight,
                           get_model_info(TheValue(hybrid)).embedding_weight)

\* C2: a scorer constructed with both weights 0 has effective weights 0.5 and
\* 0.5, and a weight explicitly given as 0 stays 0 (the other one becomes 1).
C2_ZeroWeightIsZero ==
    scorer # None =>
       LET a == TheValue(scorer).tfidf_weight_arg
           b == TheValue(scorer).embedding_weight_arg
           o == TheValue(scorer).obj
           zero(w) == w # None /\ FracIsZero(TheValue(w))
           positive(w) == w # None /\ FracIsPositive(TheValue(w))
       IN  /\ zero(a) /\ zero(b) =>
                 FracEq(o.tfidf_weight, FracHalf) /\ FracEq(o.embedding_weight, FracHalf)
           /\ zero(a) /\ positive(b) =>
                 FracEq(o.tfidf_weight, FracZero) /\ FracEq(o.embedding_weight, FracOne)
           /\ positive(a) /\ zero(b) =>
                 FracEq(o.tfidf_weight, FracOne) /\ FracEq(o.embedding_weight, FracZero)

\* C3: no recipe id appears twice in the list get_recommendations returns,
\* also when both backends returned the same recipe.
C3_NoDuplicateIds ==
    \A q \in Slots :
       pc[q] = "done" =>
          LET out == output[q].recommendations
          IN  \A i, j \in 1..Len(out) :
                 i # j => out[i]["recipe_id"] # out[j]["recipe_id"]

\* a finished query in which both backends returned the same recipe and the
\* fused list is not empty
C3_Witness ==
    \E q \in Slots :
       /\ pc[q] = "done"
       /\ IdSet(tfidf_results[q]) \cap IdSet(embedding_results[q]) # {}
       /\ output[q].recommendations # <<>>

\* C4: before truncation the fused candidates are the union, by recipe id, of
\* the two backends' candidates, and candidates with different recipe ids are
\* never merged into one entry.
C4_FusedSetIsUnion ==
    \A q \in Slots :
       pc[q] = "done" =>
          LET fused == CombinedResults(tfidf_results[q], embedding_results[q],
                                       TheValue(hybrid))
          IN  /\ IdSet(fused) = IdSet(tfidf_results[q]) \cup IdSet(embedding_results[q])
              /\ Len(fused) = Cardinality(IdSet(tfidf_results[q])
                                          \cup IdSet(embedding_results[q]))

\* C5: with max_results = m >= 1 and c distinct candidates, all with nonzero
\* scores, get_recommendations returns exactly min(m, c) entries, and no
\* candidate left out has a higher combined score than one returned.
C5_ReturnsTopM ==
    \A q \in Slots :
       (/\ pc[q] = "done"
        /\ \A i \in 1..Len(tfidf_results[q]) :
              tfidf_results[q][i]["similarity_score"] # 0
        /\ \A i \in 1..Len(embedding_results[q]) :
              embedding_results[q][i]["similarity_score"] # 0)
       =>
          LET out == output[q].recommendations
              fused == CombinedResults(tfidf_results[q], embedding_results[q],
                                       TheValue(hybrid))
              c == Cardinality(IdSet(tfidf_results[q]) \cup IdSet(embedding_results[q]))
          IN  /\ Len(out) = Min(args[q].max_results, c)
              /\ \A i \in 1..Len(out), j \in 1..Len(fused) :
                    fused[j]["recipe_id"] \notin IdSet(out) =>
                       FracGeq(Get(out[i], "match_score", FracZero),
                               Get(fused[j], "match_score", FracZero))

\* C6: when one backend is unavailable for the query, the ids returned are, in
\* order, the ids the other backend returned, truncated to max_results.
C6_FallbackKeepsRanking ==
    \A q \in Slots :
       pc[q] = "done" =>
          /\ (LexicalAvailable /\ ~DenseAvailable(q)) =>
                Ids(output[q].recommendations)
                   = Ids(Take(tfidf_results[q], args[q].max_results))
          /\ (~LexicalAvailable /\ DenseAvailable(q)) =>
                Ids(output[q].recommendations)
                   = Ids(Take(embedding_results[q], args[q].max_results))

\* C7: when neither backend is available for the query, get_recommendations
\* fails with ServiceUnavailable instead of returning a ranking.
C7_BothUnavailableFails ==
    \A q \in Slots :
       (pc[q] = "done" /\ ~LexicalAvailable /\ ~DenseAvailable(q))
       => output[q].status = "ServiceUnavailable"

\* C8: with both backends loaded, a degenerate query (no ingredient, or only
\* empty / whitespace strings) gives an empty result from the lexical backend,
\* from the dense backend and from get_recommendations.
C8_DegenerateQueryIsEmpty ==
    \A q \in Slots :
       (LexicalAvailable /\ DenseAvailable(q) /\ Degenerate(args[q].ingredients))
       =>
          /\ pc[q] \in {"embed", "merge", "done"} => tfidf_results[q] = <<>>
          /\ pc[q] \in {"merge", "done"} => embedding_results[q] = <<>>
          /\ pc[q] = "done" =>
                /\ output[q].status = "returned"
                /\ output[q].recommendations = <<>>

\* C10: two get_recommendations calls with the same ingredients, filters and
\* max_results return the same ordered list, whatever ran in between or at
\* the same time.
C10_Determinism ==
    \A q1, q2 \in Slots :
       (pc[q1] = "done" /\ pc[q2] = "done" /\ args[q1] = args[q2])
       => output[q1] = output[q2]

\* two callers finished the same query and got a non-empty list
C10_Witness ==
    /\ pc["q1"] = "done"
    /\ pc["q2"] = "done"
    /\ args["q1"] = args["q2"]
    /\ output["q1"].recommendations # <<>>
    /\ output["q2"].recommendations # <<>>

\* all_results when the embedding results are appended before the TF-IDF ones
AllResultsDenseFirst(tr, er) ==
    [i \in 1..Len(er) |-> EmbeddingCopy(er[i])] \o [i \in 1..Len(tr) |-> TfidfCopy(tr[i])]

\* the values of unique_results after the merge loop ran over all_results
FusedFrom(all_results, h) ==
    LET unique_results == UniqueResults(<<>>, all_results, h)
    IN  [i \in 1..Len(unique_results) |-> unique_results[i][2]]

\* C11: fusing the lexical candidates first and the dense ones second gives,
\* for every recipe id, the same combined score as fusing the dense candidates
\* first and the lexical ones second.
C11_OrderIndependent ==
    \A q \in Slots :
       pc[q] = "done" =>
          LET lexical_first == FusedFrom(AllResults(tfidf_results[q], embedding_results[q]),
                                         TheValue(hybrid))
              dense_first == FusedFrom(AllResultsDenseFirst(tfidf_results[q],
                                                            embedding_results[q]),
                                       TheValue(hybrid))
          IN  /\ IdSet(lexical_first) = IdSet(dense_first)
              /\ \A i \in 1..Len(lexical_first), j \in 1..Len(dense_first) :
                    lexical_first[i]["recipe_id"] = dense_first[j]["recipe_id"] =>
                       FracEq(Get(lexical_first[i], "match_score", FracZero),
                              Get(dense_first[j], "match_score", FracZero))

(***************************************************************************)
(* utils/similarity.py: HybridScorer.normalize_score_array                 *)
(***************************************************************************)

\* the longest score array passed to normalize_score_array
MaxScores == 3

FracSub(x, y) == <<x[1] * y[2] - y[1] * x[2], x[2] * y[2]>>

\* cosine similarities: -1, -1/2, 0, 1/2, 1
ScoreValues == {Frac(n, 2) : n \in -2..2}

ScoreArrays == UNION {[1..n -> ScoreValues] : n \in 0..MaxScores}

np_min(scores) ==
    scores[CHOOSE i \in 1..Len(scores) : \A j \in 1..Len(scores) : FracGeq(scores[j], scores[i])]

np_max(scores) ==
    scores[CHOOSE i \in 1..Len(scores) : \A j \in 1..Len(scores) : FracGeq(scores[i], scores[j])]

\* normalize_score_array in which equal scores are left as they are
normalize_score_array_keep_equal(scores) ==
    IF Len(scores) = 0 THEN scores
    ELSE LET min_score == np_min(scores)
             max_score == np_max(scores)
         IN  IF FracEq(max_score, min_score) THEN scores
             ELSE [i \in 1..Len(scores) |->
                      FracDiv(FracSub(scores[i], min_score), FracSub(max_score, min_score))]

normalize_score_array(scores) ==
    IF Len(scores) = 0 THEN scores
    ELSE LET min_score == np_min(scores)
             max_score == np_max(scores)
         IN  IF FracEq(max_score, min_score)
             THEN [i \in 1..Len(scores) |-> FracHalf]
             ELSE [i \in 1..Len(scores) |->
                      FracDiv(FracSub(scores[i], min_score), FracSub(max_score, min_score))]

\* no query in flight, no recommender built: only the utility functions run
InitUtils ==
    /\ settings = DefaultSettings
    /\ scorer = None
    /\ hybrid = None
    /\ tfidf = [artifacts |-> TRUE, is_loaded |-> FALSE]
    /\ embed = [artifacts |-> TRUE, encoder_ok |-> TRUE, is_loaded |-> FALSE]
    /\ IdleSlots
    /\ AuxIdle

\* a call of normalize_score_array; the array is kept next to the result, and
\* a behaviour follows one call
NormalizeScores ==
    /\ norm = None
    /\ \E scores \in ScoreArrays :
          norm' = Some([scores |-> scores, normalized |-> normalize_score_array(scores)])
    /\ UNCHANGED service
    /\ UNCHANGED <<hang, filt, manager, threads>>
    /\ UNCHANGED stores

NextNormalize == NormalizeScores

SpecNormalize == InitUtils /\ [][NextNormalize]_vars

\* C13: normalize_score_array maps a non-empty array of equal scores to 0.5
\* everywhere; an array with max > min is mapped into [0, 1] with the minimum
\* at 0, the maximum at 1 and the order of the elements preserved.
C13_MinMaxNormalisation ==
    norm # None =>
       LET scores == TheValue(norm).scores
           normalized == TheValue(norm).normalized
           n == Len(scores)
       IN  /\ Len(normalized) = n
           /\ n > 0 =>
                IF \A i, j \in 1..n : FracEq(scores[i], scores[j])
                THEN \A i \in 1..n : FracEq(normalized[i], FracHalf)
                ELSE /\ \A i \in 1..n : /\ FracGeq(normalized[i], FracZero)
                                        /\ FracGeq(FracOne, normalized[i])
                     /\ \A i \in 1..n :
                           /\ FracEq(scores[i], np_min(scores)) => FracEq(normalized[i], FracZero)
                           /\ FracEq(scores[i], np_max(scores)) => FracEq(normalized[i], FracOne)
                     /\ \A i, j \in 1..n :
                           FracGeq(scores[i], scores[j]) <=> FracGeq(normalized[i], normalized[j])

\* an array of three different scores was normalised and one of its elements
\* landed strictly between 0 and 1
C13_Witness ==
    /\ norm # None
    /\ Len(TheValue(norm).scores) = 3
    /\ \A i, j \in 1..3 : i # j => ~FracEq(TheValue(norm).scores[i], TheValue(norm).scores[j])
    /\ \E i \in 1..3 : /\ ~FracEq(TheValue(norm).normalized[i], FracZero)
                       /\ ~FracEq(TheValue(norm).normalized[i], FracOne)

FracMul(x, y) == <<x[1] * y[1], x[2] * y[2]>>

\* the min-max normalised score a backend's result list gives to one recipe;
\* a recipe the backend did not return contributes 0
NormalisedScoreOf(results, id) ==
    IF id \notin IdSet(results) THEN FracZero
    ELSE normalize_score_array([i \in 1..Len(results) |-> Frac(results[i]["similarity_score"], 1)])
            [CHOOSE i \in 1..Len(results) : results[i]["recipe_id"] = id]

\* C12: the combined score of a fused entry is w_lex * norm_lex + w_dense *
\* norm_dense, the per-backend scores recorded on the entry are the scores the
\* backends returned for that recipe, and an absent backend contributes 0.
C12_CombinedScore ==
    \A q \in Slots :
       pc[q] = "done" =>
          \A k \in 1..Len(output[q].recommendations) :
             LET e == output[q].recommendations[k]
                 h == TheValue(hybrid)
                 tr == tfidf_results[q]
                 er == embedding_results[q]
             IN  /\ \A i \in 1..Len(tr) :
                       tr[i]["recipe_id"] = e["recipe_id"] =>
                          /\ "tfidf_score" \in DOMAIN e
                          /\ e["tfidf_score"] = tr[i]["similarity_score"]
                 /\ \A i \in 1..Len(er) :
                       er[i]["recipe_id"] = e["recipe_id"] =>
                          /\ "embedding_score" \in DOMAIN e
                          /\ e["embedding_score"] = er[i]["similarity_score"]
                 /\ FracEq(Get(e, "match_score", FracZero),
                           FracAdd(FracMul(h.tfidf_weight, NormalisedScoreOf(tr, e["recipe_id"])),
                                   FracMul(h.embedding_weight, NormalisedScoreOf(er, e["recipe_id"]))))

\* list a is list b with some elements left out
RECURSIVE IsSubsequence(_, _)
IsSubsequence(a, b) ==
    IF a = <<>> THEN TRUE
    ELSE IF b = <<>> THEN FALSE
    ELSE IF Head(a) = Head(b) THEN IsSubsequence(Tail(a), Tail(b))
    ELSE IsSubsequence(a, Tail(b))

\* the common elements of a and b come in the same order in both
SameRelativeOrder(a, b) ==
    \A i, j \in 1..Len(a), k, l \in 1..Len(b) :
       (i < j /\ a[i] = b[k] /\ a[j] = b[l]) => k < l

\* the backend calls of slot q have both returned
BackendsReturned(q) == pc[q] \in {"merge", "done"}

\* what the backends return for the query of slot q without its filters
UnfilteredTfidf(q, top_n) ==
    IF LexicalAvailable
    THEN tfidf_get_top_recommendations(args[q].ingredients, top_n, 0, None, None)
    ELSE <<>>

UnfilteredEmbed(q, top_n) ==
    IF DenseAvailable(q)
    THEN embed_get_top_recommendations(args[q].ingredients, top_n, 0, None, None)
    ELSE <<>>

MaxIndices == 3

\* str.split(sep) for a one-character separator
RECURSIVE split(_, _)
split(s, sep) ==
    IF \E i \in 1..Len(s) : s[i] = sep
    THEN LET i == CHOOSE i \in 1..Len(s) : s[i] = sep /\ \A j \in 1..(i - 1) : s[j] # sep
         IN  <<SubSeq(s, 1, i - 1)>> \o split(SubSeq(s, i + 1, Len(s)), sep)
    ELSE <<s>>

\* the recipes_metadata the RecipeFilter was constructed with
filter_metadata ==
    << [cuisine |-> <<" ", "I">>, diet_types |-> <<"V", ",", " ", "G", "F">>],
       [cuisine |-> <<"i">>, diet_types |-> <<"G", "F">>],
       [cuisine |-> <<"f">>, diet_types |-> <<>>] >>

\* the loop body with the diet filter matched as a substring of diet_types
KeepsIndexSubstring(idx, cuisine_filter, diet_filter) ==
    IF idx >= Len(filter_metadata) THEN FALSE
    ELSE LET recipe == filter_metadata[idx + 1]
             recipe_cuisine == strip(Get(recipe, "cuisine", <<>>))
             recipe_diets == strip(Get(recipe, "diet_types", <<>>))
         IN  /\ ~(Truthy(cuisine_filter)
                  /\ (recipe_cuisine = <<>>
                      \/ lower(recipe_cuisine) # lower(TheValue(cuisine_filter))))
             /\ ~(Truthy(diet_filter)
                  /\ (recipe_diets = <<>>
                      \/ ~contains(lower(recipe_diets), lower(TheValue(diet_filter)))))

\* the body of the loop for one index: TRUE when idx is appended
KeepsIndex(idx, cuisine_filter, diet_filter) ==
    IF idx >= Len(filter_metadata) THEN FALSE
    ELSE LET recipe == filter_metadata[idx + 1]
             recipe_cuisine == strip(Get(recipe, "cuisine", <<>>))
             recipe_diets == strip(Get(recipe, "diet_types", <<>>))
             pieces == split(recipe_diets, ",")
             diet_list == [k \in 1..Len(pieces) |-> lower(strip(pieces[k]))]
         IN  /\ ~(Truthy(cuisine_filter)
                  /\ (recipe_cuisine = <<>>
                      \/ lower(recipe_cuisine) # lower(TheValue(cuisine_filter))))
             /\ ~(Truthy(diet_filter)
                  /\ (recipe_diets = <<>>
                      \/ \A k \in 1..Len(diet_list) :
                            diet_list[k] # lower(TheValue(diet_filter))))

RECURSIVE filter_recipes(_, _, _)
filter_recipes(recipe_indices, cuisine_filter, diet_filter) ==
    IF recipe_indices = <<>> THEN <<>>
    ELSE (IF KeepsIndex(Head(recipe_indices), cuisine_filter, diet_filter)
          THEN <<Head(recipe_indices)>> ELSE <<>>)
         \o filter_recipes(Tail(recipe_indices), cuisine_filter, diet_filter)

\* index lists as a ranking hands them over; Len(filter_metadata) is out of range
IndexLists == UNION {[1..n -> 0..Len(filter_metadata)] : n \in 0..MaxIndices}

CuisineFilters == {None, Some(<<>>), Some(<<"I">>), Some(<<"F">>)}

DietFilters == {None, Some(<<"g">>), Some(<<"g", "f">>), Some(<<"V">>)}

\* a call of filter_recipes; the arguments are kept next to the result, and a
\* behaviour follows one call
FilterRecipes ==
    /\ filt = None
    /\ \E indices \in IndexLists, c \in CuisineFilters, d \in DietFilters :
          filt' = Some([recipe_indices |-> indices, cuisine_filter |-> c, diet_filter |-> d,
                        filtered_indices |-> filter_recipes(indices, c, d)])
    /\ UNCHANGED service
    /\ UNCHANGED <<hang, norm, manager, threads>>
    /\ UNCHANGED stores

NextFilter == FilterRecipes

SpecFilter == InitUtils /\ [][NextFilter]_vars

\* the diet labels of a row: the pieces between the commas, trimmed, lower case
DietLabels(recipe) ==
    LET pieces == split(Get(recipe, "diet_types", <<>>), ",")
    IN  {lower(strip(pieces[k])) : k \in 1..Len(pieces)}

\* index idx names a recipe that satisfies the filters that are given
MatchesFilters(idx, cuisine_filter, diet_filter) ==
    /\ idx < Len(filter_metadata)
    /\ Truthy(cuisine_filter) =>
          lower(strip(filter_metadata[idx + 1]["cuisine"])) = lower(TheValue(cuisine_filter))
    /\ Truthy(diet_filter) =>
          lower(TheValue(diet_filter)) \in DietLabels(filter_metadata[idx + 1])

Elements(list) == {list[i] : i \in 1..Len(list)}

\* C15: filter_recipes returns exactly the input indices whose recipe has the
\* filter's cuisine (case-insensitive) and the diet filter among its
\* comma-separated labels, in input order; the set it returns does not depend
\* on the order of the input, and filtering the result again changes nothing.
C15_FilterRecipesExact ==
    filt # None =>
       LET f == TheValue(filt)
           n == Len(f.recipe_indices)
           Keep(idx) == MatchesFilters(idx, f.cuisine_filter, f.diet_filter)
       IN  /\ f.filtered_indices = SelectSeq(f.recipe_indices, Keep)
           /\ IsSubsequence(f.filtered_indices, f.recipe_indices)
           /\ \A p \in Permutations(1..n) :
                 Elements(filter_recipes([i \in 1..n |-> f.recipe_indices[p[i]]],
                                         f.cuisine_filter, f.diet_filter))
                    = Elements(f.filtered_indices)
           /\ filter_recipes(f.filtered_indices, f.cuisine_filter, f.diet_filter)
                 = f.filtered_indices

\* a cuisine and a diet filter were applied to three different indices, one
\* of them out of range; some index was kept and some in-range index was dropped
C15_Witness ==
    /\ filt # None
    /\ Truthy(TheValue(filt).cuisine_filter)
    /\ Truthy(TheValue(filt).diet_filter)
    /\ Cardinality(Elements(TheValue(filt).recipe_indices)) = 3
    /\ Len(filter_metadata) \in Elements(TheValue(filt).recipe_indices)
    /\ Len(TheValue(filt).filtered_indices) = 1

\* the call of a backend that exists raised during the query of slot q
LexicalRaises == hybrid # None /\ TheValue(hybrid).tfidf_recommender /\ ~LexicalAvailable

DenseRaises(q) == hybrid # None /\ TheValue(hybrid).embedding_recommender /\ ~DenseAvailable(q)

\* every returned entry is a candidate of the given backend list
BuiltFrom(recommendations, results, source) ==
    /\ \A k \in 1..Len(recommendations) :
          /\ recommendations[k]["source"] = source
          /\ recommendations[k]["recipe_id"] \in IdSet(results)
    /\ recommendations = <<>> <=> results = <<>>

\* C16: when the call of one backend raises during a query, get_recommendations
\* returns without raising, the failed backend contributes no candidate, and
\* what is returned is built from the candidates of the other backend alone.
C16_FailureAbsorbed ==
    \A q \in Slots :
       pc[q] = "done" =>
          /\ DenseRaises(q) =>
                /\ output[q].status = "returned"
                /\ embedding_results[q] = <<>>
                /\ BuiltFrom(output[q].recommendations, tfidf_results[q], "tfidf")
          /\ LexicalRaises =>
                /\ output[q].status = "returned"
                /\ tfidf_results[q] = <<>>
                /\ BuiltFrom(output[q].recommendations, embedding_results[q], "embedding")

\* the encoder failed for a query the lexical backend answered, and the query
\* returned a lexical entry
C16_Witness ==
    \E q \in Slots :
       /\ pc[q] = "done"
       /\ DenseRaises(q)
       /\ embed.artifacts
       /\ LexicalAvailable
       /\ output[q].status = "returned"
       /\ output[q].recommendations # <<>>

(***************************************************************************)
(* Progress of one query: every step of get_recommendations that can run   *)
(* does run (the request handler is not starved), and the encoder either   *)
(* answers or hangs for good.                                              *)
(***************************************************************************)
InitLive ==
    /\ settings = DefaultSettings
    /\ scorer = None
    /\ \E t \in TfidfStates, e \in EmbedStates :
          /\ hybrid = Some(HybridRecommenderInit(DefaultSettings, t.present, e.present))
          /\ tfidf = [artifacts |-> t.artifacts, is_loaded |-> FALSE]
          /\ embed = [artifacts |-> e.artifacts, encoder_ok |-> e.encoder_ok,
                      is_loaded |-> FALSE]
    /\ IdleSlots
    /\ hang \in BOOLEAN
    /\ norm = None
    /\ filt = None
    /\ manager = None
    /\ threads = None
    /\ StoresIdle

NextLive ==
    \/ Start("q1")
    \/ CallTfidf("q1")
    \/ CallEmbed("q1")
    \/ Merge("q1")
    \/ Return("q1")

\* the control flow of get_recommendations: the step CallTfidf, CallEmbed or
\* Merge that slot q can take, seen on pc alone
Advance(q) ==
    /\ pc[q] \in {"tfidf", "embed", "merge"}
    /\ ~(pc[q] = "embed" /\ EncodeHangs(q))
    /\ pc' = [pc EXCEPT ![q] = IF pc[q] = "tfidf" THEN "embed"
                               ELSE IF pc[q] = "embed" THEN "merge" ELSE "done"]

\* a query that can take its next step takes it
SpecLive ==
    /\ InitLive
    /\ [][NextLive]_vars
    /\ WF_pc(Advance("q1"))

\* C17: every query that entered get_recommendations eventually reaches a
\* terminal state, even when the encode call never returns.
C17_QueryTerminates ==
    \A q \in Slots : (pc[q] = "tfidf") ~> (pc[q] = "done")

\* a query whose encode call answers or is never made does terminate
QueryTerminatesUnlessHung ==
    \A q \in Slots : (pc[q] = "tfidf" /\ ~hang) ~> (pc[q] = "done")

\* Pending 0, BackendsRunning 1 and 2, Fusing (with Filtering) 3, Ranked 4
PhaseRank(p) ==
    IF p = "idle" THEN 0
    ELSE IF p = "tfidf" THEN 1
    ELSE IF p = "embed" THEN 2
    ELSE IF p = "merge" THEN 3
    ELSE 4

\* every returned entry satisfies the filters of the query
OutputFiltered(q) ==
    \A k \in 1..Len(output[q].recommendations) :
       PassesFilters(output[q].recommendations[k], args[q].cuisine_filter,
                     args[q].diet_filter)

\* C18: within one query the phases come in the order Pending,
\* BackendsRunning, Fusing, Filtering, Ranked: a step moves a query to the next
\* phase only, the merge runs only once both backend calls have returned or
\* failed and fuses their complete lists, what it returns satisfies the
\* filters, and after the terminal phase nothing of the query changes until
\* the caller takes the result.
C18_PhaseOrder ==
    [][\A q \in Slots :
          /\ pc'[q] # pc[q] =>
                \/ PhaseRank(pc'[q]) = PhaseRank(pc[q]) + 1
                \/ pc[q] = "done" /\ pc'[q] = "idle"
          /\ (output'[q] # output[q] /\ pc'[q] # "idle") =>
                /\ pc[q] = "merge"
                /\ pc'[q] = "done"
                /\ tfidf_results[q] = (IF LexicalAvailable
                                       THEN tfidf_get_top_recommendations(
                                                args[q].ingredients, args[q].max_results * 2, 0,
                                                args[q].cuisine_filter, args[q].diet_filter)
                                       ELSE <<>>)
                /\ embedding_results[q] = (IF DenseAvailable(q)
                                           THEN embed_get_top_recommendations(
                                                    args[q].ingredients, args[q].max_results * 2, 0,
                                                    args[q].cuisine_filter, args[q].diet_filter)
                                           ELSE <<>>)
                /\ IdSet(output'[q].recommendations)
                      \subseteq IdSet(tfidf_results[q]) \cup IdSet(embedding_results[q])
                /\ OutputFiltered(q)'
          /\ pc[q] \in {"merge", "done"} /\ pc'[q] # "idle" =>
                /\ tfidf_results'[q] = tfidf_results[q]
                /\ embedding_results'[q] = embedding_results[q]
                /\ args'[q] = args[q]
          /\ pc[q] = "done" /\ pc'[q] = "done" => output'[q] = output[q]
      ]_vars

\* a filtered query is ranked from the lists of both backends while the other
\* query has its lexical list and still waits for the dense one
C18_Witness ==
    /\ pc["q1"] = "done"
    /\ Truthy(args["q1"].diet_filter)
    /\ tfidf_results["q1"] # <<>>
    /\ embedding_results["q1"] # <<>>
    /\ output["q1"].recommendations # <<>>
    /\ pc["q2"] = "embed"
    /\ tfidf_results["q2"] # <<>>
    /\ output["q2"] = NoOutput

(***************************************************************************)
(* core/model_manager.py: ModelManager, called from several threads.  A    *)
(* step is one attribute read or write; load_models and unload_models run  *)
(* under self._lock, get_recommender takes no lock.                        *)
(***************************************************************************)
Threads == {"t1", "t2"}

\* ModelManager(): nothing loaded, the lock free; first_load_done records that
\* a load_models call has completed with _loaded set, constructions counts
\* the HybridRecommender() calls since the recommenders were last unloaded
NewManager ==
    [simple_recommender |-> "None", hybrid_recommender |-> "None",
     _loaded |-> FALSE, _lock |-> "free", first_load_done |-> FALSE,
     constructions |-> 0]

\* lines 100-105: the status dict load_models starts from
NoStatus == [simple_loaded |-> FALSE, hybrid_loaded |-> FALSE]

\* get_model_status: what the manager's fields say
get_model_status(m) ==
    [simple_loaded |-> m.simple_recommender # "None",
     hybrid_loaded |-> m.hybrid_recommender # "None"]

\* a thread outside the manager; status is the dict its load_models call
\* builds, load_returned says that the call has returned it
IdleThread == [pc |-> "idle", op |-> "none", cont |-> "none",
               after_load |-> FALSE, result |-> "none",
               status |-> NoStatus, load_returned |-> FALSE]

InitManager ==
    /\ settings = DefaultSettings
    /\ scorer = None
    /\ hybrid = None
    /\ tfidf = [artifacts |-> TRUE, is_loaded |-> FALSE]
    /\ embed = [artifacts |-> TRUE, encoder_ok |-> TRUE, is_loaded |-> FALSE]
    /\ IdleSlots
    /\ hang = FALSE
    /\ norm = None
    /\ filt = None
    /\ manager = NewManager
    /\ threads = [t \in Threads |-> IdleThread]
    /\ StoresIdle

\* thread t moves to pc p; the manager and the rest are set by the caller
Goto(t, p) == threads' = [threads EXCEPT ![t].pc = p]

ManagerStep == UNCHANGED service /\ UNCHANGED <<hang, norm, filt>> /\ UNCHANGED stores

\* main.py:44, the startup load
CallLoadModels(t) ==
    /\ threads[t].pc = "idle"
    /\ threads' = [threads EXCEPT ![t] = [IdleThread EXCEPT !.pc = "l_acquire",
                                                           !.op = "load", !.cont = "ret"]]
    /\ UNCHANGED manager
    /\ ManagerStep

\* api/recommend.py:36, a query asks for the recommender
CallGetRecommender(t) ==
    /\ threads[t].pc = "idle"
    /\ threads' = [threads EXCEPT ![t] =
                      [IdleThread EXCEPT !.pc = "g_loaded", !.op = "get",
                                         !.after_load = manager.first_load_done]]
    /\ UNCHANGED manager
    /\ ManagerStep

\* main.py:159, the reload endpoint: line 221 calls unload_models first
CallReloadModels(t) ==
    /\ threads[t].pc = "idle"
    /\ threads' = [threads EXCEPT ![t] = [IdleThread EXCEPT !.pc = "u_acquire",
                                                           !.op = "reload", !.cont = "ret"]]
    /\ UNCHANGED manager
    /\ ManagerStep

\* line 179: if not self._loaded: self.load_models()
GetReadLoaded(t) ==
    /\ threads[t].pc = "g_loaded"
    /\ threads' = [threads EXCEPT ![t].pc = IF manager._loaded THEN "g_hybrid" ELSE "l_acquire",
                                  ![t].cont = "g_hybrid"]
    /\ UNCHANGED manager
    /\ ManagerStep

\* line 183, first operand: self.hybrid_recommender is read for its truth value
GetReadHybrid(t) ==
    /\ threads[t].pc = "g_hybrid"
    /\ Goto(t, IF manager.hybrid_recommender = "None" THEN "g_simple" ELSE "g_available")
    /\ UNCHANGED manager
    /\ ManagerStep

\* line 183, second operand: self.hybrid_recommender is read again and
\* is_available() is called on it; on None the call raises AttributeError
GetIsAvailable(t) ==
    /\ threads[t].pc = "g_available"
    /\ threads' = [threads EXCEPT
                      ![t].pc = IF manager.hybrid_recommender = "None" THEN "ret"
                                ELSE IF manager.hybrid_recommender = "available"
                                     THEN "g_return" ELSE "g_simple",
                      ![t].result = IF manager.hybrid_recommender = "None"
                                    THEN "raised" ELSE "none"]
    /\ UNCHANGED manager
    /\ ManagerStep

\* line 184: return self.hybrid_recommender, a third read
GetReturnHybrid(t) ==
    /\ threads[t].pc = "g_return"
    /\ threads' = [threads EXCEPT ![t].pc = "ret",
                                  ![t].result = manager.hybrid_recommender]
    /\ UNCHANGED manager
    /\ ManagerStep

\* line 186: return self.simple_recommender
GetReturnSimple(t) ==
    /\ threads[t].pc = "g_simple"
    /\ threads' = [threads EXCEPT ![t].pc = "ret",
                                  ![t].result = manager.simple_recommender]
    /\ UNCHANGED manager
    /\ ManagerStep

\* the with statement of load_models entered without waiting for the lock
LoadAcquireUnlocked(t) ==
    /\ threads[t].pc = "l_acquire"
    /\ manager' = [manager EXCEPT !._lock = t]
    /\ Goto(t, "l_check")
    /\ ManagerStep

\* line 93: with self._lock, entered when the lock is free
LoadAcquire(t) ==
    /\ threads[t].pc = "l_acquire"
    /\ manager._lock = "free"
    /\ manager' = [manager EXCEPT !._lock = t]
    /\ Goto(t, "l_check")
    /\ ManagerStep

\* lines 94-95: already loaded and no force_reload, return the status
LoadCheck(t) ==
    /\ threads[t].pc = "l_check"
    /\ threads' = [threads EXCEPT
                      ![t].pc = IF manager._loaded THEN "l_release" ELSE "l_simple",
                      ![t].status = IF manager._loaded
                                    THEN get_model_status(manager) ELSE NoStatus]
    /\ UNCHANGED manager
    /\ ManagerStep

\* line 109: self.simple_recommender = get_simple_recommender()
LoadSimple(t) ==
    /\ threads[t].pc = "l_simple"
    /\ manager' = [manager EXCEPT !.simple_recommender = "simple"]
    /\ threads' = [threads EXCEPT ![t].pc = "l_hybrid",
                                  ![t].status.simple_loaded = TRUE]
    /\ ManagerStep

\* line 114: self.hybrid_recommender = HybridRecommender(); whether it is
\* available depends on the backends it could obtain
LoadHybrid(t) ==
    /\ threads[t].pc = "l_hybrid"
    /\ \E h \in {"available", "unavailable"} :
          manager' = [manager EXCEPT !.hybrid_recommender = h,
                                     !.constructions = @ + 1]
    /\ threads' = [threads EXCEPT ![t].pc = "l_loaded",
                                  ![t].status.hybrid_loaded = TRUE]
    /\ ManagerStep

\* line 122: self._loaded = True
LoadSetLoaded(t) ==
    /\ threads[t].pc = "l_loaded"
    /\ manager' = [manager EXCEPT !._loaded = TRUE]
    /\ Goto(t, "l_release")
    /\ ManagerStep

\* line 129: return status, leaving the with block
LoadRelease(t) ==
    /\ threads[t].pc = "l_release"
    /\ manager' = [manager EXCEPT !._lock = "free",
                                  !.first_load_done = manager.first_load_done \/ manager._loaded]
    /\ threads' = [threads EXCEPT ![t].pc = threads[t].cont,
                                  ![t].load_returned = TRUE]
    /\ ManagerStep

\* line 195: with self._lock in unload_models
UnloadAcquire(t) ==
    /\ threads[t].pc = "u_acquire"
    /\ manager._lock = "free"
    /\ manager' = [manager EXCEPT !._lock = t]
    /\ Goto(t, "u_simple")
    /\ ManagerStep

\* line 198: self.simple_recommender = None
UnloadSimple(t) ==
    /\ threads[t].pc = "u_simple"
    /\ manager' = [manager EXCEPT !.simple_recommender = "None"]
    /\ Goto(t, "u_hybrid")
    /\ ManagerStep

\* line 199: self.hybrid_recommender = None
UnloadHybrid(t) ==
    /\ threads[t].pc = "u_hybrid"
    /\ manager' = [manager EXCEPT !.hybrid_recommender = "None",
                                  !.constructions = 0]
    /\ Goto(t, "u_loaded")
    /\ ManagerStep

\* line 201: self._loaded = False
UnloadSetLoaded(t) ==
    /\ threads[t].pc = "u_loaded"
    /\ manager' = [manager EXCEPT !._loaded = FALSE]
    /\ Goto(t, "u_release")
    /\ ManagerStep

\* line 207 leaves the with block; line 222 of reload_models calls load_models
UnloadRelease(t) ==
    /\ threads[t].pc = "u_release"
    /\ manager' = [manager EXCEPT !._lock = "free"]
    /\ Goto(t, "l_acquire")
    /\ ManagerStep

\* the caller has its return value and leaves
Finish(t) ==
    /\ threads[t].pc = "ret"
    /\ threads' = [threads EXCEPT ![t] = IdleThread]
    /\ UNCHANGED manager
    /\ ManagerStep

NextManager ==
    \E t \in Threads :
        \/ CallLoadModels(t)
        \/ CallGetRecommender(t)
        \/ CallReloadModels(t)
        \/ GetReadLoaded(t)
        \/ GetReadHybrid(t)
        \/ GetIsAvailable(t)
        \/ GetReturnHybrid(t)
        \/ GetReturnSimple(t)
        \/ LoadAcquire(t)
        \/ LoadCheck(t)
        \/ LoadSimple(t)
        \/ LoadHybrid(t)
        \/ LoadSetLoaded(t)
        \/ LoadRelease(t)
        \/ UnloadAcquire(t)
        \/ UnloadSimple(t)
        \/ UnloadHybrid(t)
        \/ UnloadSetLoaded(t)
        \/ UnloadRelease(t)
        \/ Finish(t)

SpecManager == InitManager /\ [][NextManager]_vars

\* C19: a reload is an atomic swap: every get_recommender call that started
\* after the first load completed returns a recommender, never None and never
\* an exception, whatever reload_models does meanwhile.
C19_ReloadAtomic ==
    \A t \in Threads :
       (threads[t].pc = "ret" /\ threads[t].op = "get" /\ threads[t].after_load)
          => threads[t].result \in {"simple", "available", "unavailable"}

\* api/recommend.py line 120: the model_info sent with the result of slot q
ResponseModelInfo(q) == get_model_info(TheValue(hybrid))

\* C20: the availability metadata returned with a result is honest: a
\* backend is reported available only if it answered the query, so a backend
\* that failed or was unavailable for the query is reported unavailable.
C20_HonestAvailability ==
    \A q \in Slots :
       pc[q] = "done" =>
          /\ ResponseModelInfo(q).tfidf_available => LexicalAvailable
          /\ ResponseModelInfo(q).embedding_available => DenseAvailable(q)

(***************************************************************************)
(* api/recommend.py and api/models.py: a request reaches the ranker either *)
(* through the /recommend handler, after the request model validated it,   *)
(* or by a direct call of HybridRecommender.get_recommendations.           *)
(***************************************************************************)

\* core/config.py line 26: max_recommendations, the configured cap
max_recommendations == 50

\* api/models.py lines 27-28: Field(10, ge=1, le=50)
max_results_ge == 1

max_results_le == 50

\* requested counts: negative, 0, small valid ones, the cap and one above it
RequestedCounts ==
    {-1, 0} \cup (1..MaxResults) \cup {max_recommendations, max_recommendations + 1}

\* RecommendationRequest accepts the value of max_results
RequestValid(m) == max_results_ge <= m /\ m <= max_results_le

\* POST /recommend: the request model is validated before the handler body
\* runs; an invalid request is rejected and the ranker is not called
ApiRequest(q) ==
    /\ pc[q] = "idle"
    /\ hybrid # None
    /\ \E ingredients \in IngredientLists, f \in FilterPairs, m \in RequestedCounts :
          /\ args' = [args EXCEPT ![q] = [ingredients |-> ingredients,
                                          cuisine_filter |-> f[1],
                                          diet_filter |-> f[2],
                                          max_results |-> m]]
          /\ pc' = [pc EXCEPT ![q] = IF RequestValid(m) THEN "tfidf" ELSE "done"]
          /\ output' = [output EXCEPT ![q] =
                           IF RequestValid(m) THEN output[q]
                           ELSE [status |-> "rejected", recommendations |-> <<>>]]
    /\ UNCHANGED <<settings, scorer, hybrid, tfidf, embed,
                   tfidf_results, embedding_results>>
    /\ UNCHANGED aux

\* get_recommendations called directly: lines 65-86 go straight to the
\* TF-IDF call, whatever max_results is
CallRanker(q) ==
    /\ pc[q] = "idle"
    /\ hybrid # None
    /\ \E ingredients \in IngredientLists, f \in FilterPairs, m \in RequestedCounts :
          args' = [args EXCEPT ![q] = [ingredients |-> ingredients,
                                       cuisine_filter |-> f[1],
                                       diet_filter |-> f[2],
                                       max_results |-> m]]
    /\ pc' = [pc EXCEPT ![q] = "tfidf"]
    /\ UNCHANGED <<settings, scorer, hybrid, tfidf, embed,
                   tfidf_results, embedding_results, output>>
    /\ UNCHANGED aux

NextApi ==
    \/ ApiRequest("q1")
    \/ CallRanker("q1")
    \/ CallTfidf("q1")
    \/ CallEmbed("q1")
    \/ Merge("q1")
    \/ Return("q1")

SpecApi == Init /\ [][NextApi]_vars

\* C21: a query whose max_results is outside [1, configured cap] ends
\* rejected, never in a returned ranking; a query with a valid max_results
\* returns at most max_results entries.
C21_MaxResultsValidated ==
    \A q \in Slots :
       pc[q] = "done" =>
          IF args[q].max_results \in 1..max_recommendations
          THEN output[q].status = "returned"
                  => Len(output[q].recommendations) <= args[q].max_results
          ELSE output[q].status # "returned"

(***************************************************************************)
(* Object identity of the corpus records and of the result entries.  The   *)
(* store maps an address to a dict; lists hold addresses.  The backend     *)
(* builds a new dict per candidate, the hybrid copies each of them, the    *)
(* merge loop writes into the copy it kept, and the caller may write into  *)
(* what it was handed.                                                     *)
(***************************************************************************)

\* the queries whose objects are followed
HeapQueries == { << <<"A", " ">> >>, << <<"b">>, <<"A">> >> }

\* top_n of the followed backend calls
HeapTopN == 2

\* the n smallest addresses that are not in use
RECURSIVE FreshAddresses(_, _)
FreshAddresses(used, n) ==
    IF n = 0 THEN <<>>
    ELSE LET a == CHOOSE x \in 1..(Cardinality(used) + 1) : x \notin used
         IN  <<a>> \o FreshAddresses(used \cup {a}, n - 1)

\* the store extended by the new objects values[i] at addrs[i]
Allocate(objs, addrs, values) ==
    [a \in (DOMAIN objs) \cup Elements(addrs) |->
        IF a \in Elements(addrs)
        THEN values[CHOOSE i \in 1..Len(addrs) : addrs[i] = a]
        ELSE objs[a]]

\* the corpus row (1-based) whose record produced a backend result
RowOf(result) ==
    CHOOSE idx \in 1..Len(recipe_metadata) :
       Get(recipe_metadata[idx], "id", idx - 1) = result["recipe_id"]

\* recommender_tfidf.py lines 149-159 on the stored record: a new dict
RecommendationFrom(recipe, idx, score) ==
    [recipe_id |-> Get(recipe, "id", idx - 1),
     title |-> Get(recipe, "title", <<"U">>),
     ingredients |-> Get(recipe, "ingredients_cleaned", <<>>),
     cuisine |-> Get(recipe, "cuisine", <<"U">>),
     diet_types |-> Get(recipe, "diet_types", <<>>),
     cooking_time |-> Get(recipe, "cooking_time", 0),
     difficulty |-> Get(recipe, "difficulty", <<"U">>),
     similarity_score |-> score,
     match_percentage |-> score * 100]

\* the candidate loop appending the stored record itself, not a new dict
BackendEntriesAliased(objs, metadata, ranked) ==
    [objs |-> objs,
     addrs |-> [i \in 1..Len(ranked) |-> metadata[RowOf(ranked[i])]]]

\* the candidate loop: one new dict per returned candidate
BackendEntries(objs, metadata, ranked) ==
    LET addrs == FreshAddresses(DOMAIN objs, Len(ranked))
        values == [i \in 1..Len(ranked) |->
                      RecommendationFrom(objs[metadata[RowOf(ranked[i])]],
                                         RowOf(ranked[i]),
                                         ranked[i]["similarity_score"])]
    IN  [objs |-> Allocate(objs, addrs, values), addrs |-> addrs]

\* a caller that holds nothing
HeapIdle == [pc |-> "idle", ingredients |-> <<>>, backend_results |-> <<>>,
             all_results |-> <<>>, returned |-> <<>>]

\* the loaded corpus: record i of the metadata list lives at address i
InitHeap ==
    /\ settings = DefaultSettings
    /\ scorer = None
    /\ hybrid = Some(HybridRecommenderInit(DefaultSettings, TRUE, TRUE))
    /\ tfidf = [artifacts |-> TRUE, is_loaded |-> TRUE]
    /\ embed = [artifacts |-> TRUE, encoder_ok |-> TRUE, is_loaded |-> TRUE]
    /\ IdleSlots
    /\ hang = FALSE
    /\ norm = None
    /\ filt = None
    /\ manager = None
    /\ threads = None
    /\ cache = None
    /\ backend = None
    /\ heap = [objs |-> [a \in 1..Len(recipe_metadata) |-> recipe_metadata[a]],
               metadata |-> [i \in 1..Len(recipe_metadata) |-> i],
               callers |-> [q \in Slots |-> HeapIdle]]

HeapStep == UNCHANGED service /\ UNCHANGED <<hang, norm, filt, manager, threads, cache, backend>>

\* get_top_recommendations of the TF-IDF backend: lines 128-165
HeapCallBackend(q) ==
    /\ heap.callers[q].pc = "idle"
    /\ \E ingredients \in HeapQueries :
          LET ranked == tfidf_get_top_recommendations(ingredients, HeapTopN, 0, None, None)
              e == BackendEntries(heap.objs, heap.metadata, ranked)
          IN  heap' = [heap EXCEPT !.objs = e.objs,
                                   !.callers[q] = [HeapIdle EXCEPT !.pc = "backend",
                                                                   !.ingredients = ingredients,
                                                                   !.backend_results = e.addrs]]
    /\ HeapStep

\* the backend was called directly: its list is what the caller holds
HeapReturnBackend(q) ==
    /\ heap.callers[q].pc = "backend"
    /\ heap' = [heap EXCEPT !.callers[q].pc = "done",
                            !.callers[q].returned = heap.callers[q].backend_results]
    /\ HeapStep

\* hybrid_recommender.py lines 116-120: result_copy = result.copy(), then the
\* copy is tagged and appended to all_results
HeapHybridCopy(q) ==
    /\ heap.callers[q].pc = "backend"
    /\ LET results == heap.callers[q].backend_results
           addrs == FreshAddresses(DOMAIN heap.objs, Len(results))
           values == [i \in 1..Len(results) |-> TfidfCopy(heap.objs[results[i]])]
       IN  heap' = [heap EXCEPT !.objs = Allocate(heap.objs, addrs, values),
                                !.callers[q].pc = "copied",
                                !.callers[q].all_results = addrs]
    /\ HeapStep

\* lines 130-150: the first dict of a key stays in unique_results and is
\* written to for every later dict of that key; the kept dicts are returned
HeapMerge(q) ==
    /\ heap.callers[q].pc = "copied"
    /\ LET all == heap.callers[q].all_results
           values == [i \in 1..Len(all) |-> heap.objs[all[i]]]
           first(i) == \A j \in 1..(i - 1) : ResultKey(values[j]) # ResultKey(values[i])
           kept == SelectSeq([i \in 1..Len(all) |-> i], first)
           fused == FusedFrom(values, TheValue(hybrid))
       IN  heap' = [heap EXCEPT
                       !.objs = [a \in DOMAIN heap.objs |->
                                    IF \E k \in 1..Len(kept) : all[kept[k]] = a
                                    THEN fused[CHOOSE k \in 1..Len(kept) : all[kept[k]] = a]
                                    ELSE heap.objs[a]],
                       !.callers[q].pc = "done",
                       !.callers[q].returned = [k \in 1..Len(kept) |-> all[kept[k]]]]
    /\ HeapStep

\* the caller writes into every entry it was handed
HeapCallerMutates(q) ==
    /\ heap.callers[q].pc = "done"
    /\ heap' = [heap EXCEPT
                   !.objs = [a \in DOMAIN heap.objs |->
                                IF a \in Elements(heap.callers[q].returned)
                                THEN Put(heap.objs[a], "title", <<"x">>)
                                ELSE heap.objs[a]],
                   !.callers[q].pc = "mutated"]
    /\ HeapStep

\* the caller lets go of its lists; the dicts only it referred to are gone
HeapDrop(q) ==
    /\ heap.callers[q].pc = "mutated"
    /\ LET own == (Elements(heap.callers[q].backend_results)
                      \cup Elements(heap.callers[q].all_results))
                  \ Elements(heap.metadata)
       IN  heap' = [heap EXCEPT !.objs = [a \in (DOMAIN heap.objs) \ own |-> heap.objs[a]],
                                !.callers[q] = HeapIdle]
    /\ HeapStep

NextHeap ==
    \E q \in Slots :
        \/ HeapCallBackend(q)
        \/ HeapReturnBackend(q)
        \/ HeapHybridCopy(q)
        \/ HeapMerge(q)
        \/ HeapCallerMutates(q)
        \/ HeapDrop(q)

SpecHeap == InitHeap /\ [][NextHeap]_vars

\* the addresses a caller holds
HeldBy(q) ==
    Elements(heap.callers[q].backend_results) \cup Elements(heap.callers[q].all_results)

\* the entries a caller was handed, as the query computed them
ExpectedReturn(q) ==
    LET c == heap.callers[q]
        ranked == tfidf_get_top_recommendations(c.ingredients, HeapTopN, 0, None, None)
    IN  IF c.all_results = <<>> /\ c.returned = c.backend_results THEN ranked
        ELSE FusedFrom([i \in 1..Len(ranked) |-> TfidfCopy(ranked[i])], TheValue(hybrid))

\* C22: queries are read-only: the corpus records stay as loaded, every
\* result entry is a dict of its own (not a corpus record, not an entry of
\* another query), and what one caller merges or writes never shows in the
\* entries another caller was handed.
C22_QueriesReadOnly ==
    /\ heap.metadata = [i \in 1..Len(recipe_metadata) |-> i]
    /\ \A i \in 1..Len(recipe_metadata) : heap.objs[heap.metadata[i]] = recipe_metadata[i]
    /\ \A q \in Slots :
          /\ HeldBy(q) \cap Elements(heap.metadata) = {}
          /\ \A r \in Slots \ {q} : HeldBy(q) \cap HeldBy(r) = {}
          /\ heap.callers[q].pc = "done" =>
                [i \in 1..Len(heap.callers[q].returned) |->
                    heap.objs[heap.callers[q].returned[i]]] = ExpectedReturn(q)

\* one caller wrote into the entries of its result while the other caller
\* holds the merged result of the same query
C22_Witness ==
    /\ heap.callers["q1"].pc = "mutated"
    /\ heap.callers["q1"].returned # <<>>
    /\ heap.callers["q2"].pc = "done"
    /\ heap.callers["q2"].all_results # <<>>
    /\ heap.callers["q2"].ingredients = heap.callers["q1"].ingredients

(***************************************************************************)
(* core/caching.py: CacheManager with Redis disabled (redis_client is      *)
(* None), so every operation works on the dict memory_cache.  The clock    *)
(* datetime.now() is the field now; a value is tagged with its Python      *)
(* type; json.dumps raises TypeError on a set.                             *)
(***************************************************************************)
MaxClock == 3

CacheKeys == {"key1", "key2"}

CacheValues ==
    { [type |-> "str", v |-> <<"x">>],
      [type |-> "str", v |-> <<"y">>],
      [type |-> "set", v |-> <<>>] }

Ttls == {0, 1, 2}

json_serializable(value) == value.type # "set"

datetime(t) == [type |-> "datetime", t |-> t]

\* time.time() + ttl: a float where the cache expects a datetime
float(t) == [type |-> "float", t |-> t]

DictDel(d, k) == [x \in (DOMAIN d) \ {k} |-> d[x]]

\* the outcome of one call: the dict afterwards, the value returned, and
\* whether an exception left the call
Outcome(memory_cache, returned, raised) ==
    [memory_cache |-> memory_cache, returned |-> returned, raised |-> raised]

\* entry['expires_at'] compared with a datetime raises TypeError unless it
\* is a datetime itself
ComparisonRaises(entry) == entry.expires_at.type # "datetime"

\* _cleanup_memory_cache: the list of expired keys is built first, so a
\* comparison that raises deletes nothing; the error is logged, not raised
cleanup_memory_cache(memory_cache, now) ==
    IF \E k \in DOMAIN memory_cache : ComparisonRaises(memory_cache[k])
    THEN memory_cache
    ELSE LET expired_keys ==
                 {k \in DOMAIN memory_cache : memory_cache[k].expires_at.t <= now}
         IN  [k \in (DOMAIN memory_cache) \ expired_keys |-> memory_cache[k]]

\* the try block of get
get_try(memory_cache, now, key) ==
    IF key \in DOMAIN memory_cache
    THEN LET cache_entry == memory_cache[key]
         IN  IF ComparisonRaises(cache_entry)
             THEN Outcome(memory_cache, None, TRUE)
             ELSE IF cache_entry.expires_at.t > now
             THEN Outcome(memory_cache, Some(cache_entry.value), FALSE)
             ELSE Outcome(DictDel(memory_cache, key), None, FALSE)
    ELSE Outcome(memory_cache, None, FALSE)

cache_get_ignoring_expiry(memory_cache, now, key) ==
    IF key \in DOMAIN memory_cache /\ ~ComparisonRaises(memory_cache[key])
    THEN Outcome(memory_cache, Some(memory_cache[key].value), FALSE)
    ELSE Outcome(memory_cache, None, FALSE)

\* CacheManager.get: except Exception returns None
cache_get(memory_cache, now, key) ==
    LET body == get_try(memory_cache, now, key)
    IN  IF body.raised
        THEN Outcome(body.memory_cache, None, FALSE)
        ELSE body

\* the try block of set: json.dumps(value) comes before the store
set_try(memory_cache, now, key, value, ttl) ==
    IF ~json_serializable(value)
    THEN Outcome(memory_cache, None, TRUE)
    ELSE LET expires_at == datetime(now + ttl)
             stored == Put(memory_cache, key,
                           [value |-> value, expires_at |-> expires_at])
         IN  Outcome(cleanup_memory_cache(stored, now), TRUE, FALSE)

cache_set_store_first(memory_cache, now, key, value, ttl) ==
    LET stored == Put(memory_cache, key,
                      [value |-> value, expires_at |-> datetime(now + ttl)])
    IN  IF ~json_serializable(value)
        THEN Outcome(stored, FALSE, FALSE)
        ELSE Outcome(cleanup_memory_cache(stored, now), TRUE, FALSE)

\* CacheManager.set: except Exception returns False
cache_set(memory_cache, now, key, value, ttl) ==
    LET body == set_try(memory_cache, now, key, value, ttl)
    IN  IF body.raised
        THEN Outcome(body.memory_cache, FALSE, FALSE)
        ELSE body

\* CacheManager.delete
cache_delete(memory_cache, key) ==
    Outcome(IF key \in DOMAIN memory_cache
            THEN DictDel(memory_cache, key)
            ELSE memory_cache,
            TRUE, FALSE)

\* CacheManager.clear
cache_clear(memory_cache) == Outcome(<<>>, TRUE, FALSE)

NoCall ==
    [op |-> "none", key |-> "", value |-> None, at |-> 0,
     before |-> <<>>, returned |-> None, raised |-> FALSE]

\* CacheManager(enable_redis=False); written remembers, for every key, the
\* entry of the most recent successful set that has not been deleted,
\* cleared or overwritten since
InitCache ==
    /\ settings = DefaultSettings
    /\ scorer = None
    /\ hybrid = None
    /\ tfidf = [artifacts |-> TRUE, is_loaded |-> FALSE]
    /\ embed = [artifacts |-> TRUE, encoder_ok |-> TRUE, is_loaded |-> FALSE]
    /\ IdleSlots
    /\ hang = FALSE /\ norm = None /\ filt = None
    /\ manager = None /\ threads = None
    /\ heap = None /\ backend = None
    /\ cache = [memory_cache |-> <<>>, now |-> 0, call |-> NoCall,
                written |-> [k \in CacheKeys |-> None]]

CacheStep ==
    /\ UNCHANGED service
    /\ UNCHANGED <<hang, norm, filt, manager, threads, heap, backend>>

Called(op, key, value, out) ==
    [op |-> op, key |-> key, value |-> value, at |-> cache.now,
     before |-> cache.memory_cache,
     returned |-> out.returned, raised |-> out.raised]

CacheGet(key) ==
    LET out == cache_get(cache.memory_cache, cache.now, key)
    IN  /\ cache' = [cache EXCEPT !.memory_cache = out.memory_cache,
                                  !.call = Called("get", key, None, out)]
        /\ CacheStep

CacheSet(key, value, ttl) ==
    LET out == cache_set(cache.memory_cache, cache.now, key, value, ttl)
    IN  /\ cache' = [cache EXCEPT
                        !.memory_cache = out.memory_cache,
                        !.call = Called("set", key, Some(value), out),
                        !.written[key] =
                            IF json_serializable(value)
                            THEN Some([value |-> value, expires_at |-> cache.now + ttl])
                            ELSE @]
        /\ CacheStep

CacheDelete(key) ==
    LET out == cache_delete(cache.memory_cache, key)
    IN  /\ cache' = [cache EXCEPT !.memory_cache = out.memory_cache,
                                  !.call = Called("delete", key, None, out),
                                  !.written[key] = None]
        /\ CacheStep

CacheClear ==
    LET out == cache_clear(cache.memory_cache)
    IN  /\ cache' = [cache EXCEPT !.memory_cache = out.memory_cache,
                                  !.call = Called("clear", "", None, out),
                                  !.written = [k \in CacheKeys |-> None]]
        /\ CacheStep

\* an entry written into memory_cache directly, with a float for the expiry
\* (test_cache_error_handling)
CacheStoreMalformed(key) ==
    /\ cache' = [cache EXCEPT
                    !.memory_cache =
                        Put(@, key, [value |-> [type |-> "str", v |-> <<"x">>],
                                     expires_at |-> float(cache.now + 2)]),
                    !.call = NoCall,
                    !.written[key] = None]
    /\ CacheStep

\* datetime.now() moves on
Tick ==
    /\ cache.now < MaxClock
    /\ cache' = [cache EXCEPT !.now = @ + 1]
    /\ CacheStep

NextCache ==
    \/ \E key \in CacheKeys : CacheGet(key)
    \/ \E key \in CacheKeys, value \in CacheValues, ttl \in Ttls :
          CacheSet(key, value, ttl)
    \/ \E key \in CacheKeys : CacheDelete(key)
    \/ CacheClear
    \/ \E key \in CacheKeys : CacheStoreMalformed(key)
    \/ Tick

SpecCache == InitCache /\ [][NextCache]_vars

\* what get(key) owes the caller at time now
Live(key, now) ==
    IF cache.written[key] # None /\ TheValue(cache.written[key]).expires_at > now
    THEN Some(TheValue(cache.written[key]).value)
    ELSE None

\* C23: with Redis disabled, get(k) returns the value of the most recent
\* set(k, v, ttl) whose entry has not been deleted, cleared or expired, and
\* None otherwise; an entry whose TTL has elapsed is never returned; delete
\* and clear return True and leave nothing to be found under the key.
C23_MemoryCacheContract ==
    /\ cache.call.op = "get" =>
          cache.call.returned = Live(cache.call.key, cache.call.at)
    /\ cache.call.op = "delete" =>
          /\ cache.call.returned = TRUE
          /\ cache.call.key \notin DOMAIN cache.memory_cache
          /\ Live(cache.call.key, cache.now) = None
    /\ cache.call.op = "clear" =>
          /\ cache.call.returned = TRUE
          /\ cache.memory_cache = <<>>
          /\ \A k \in CacheKeys : Live(k, cache.now) = None

\* a get that missed an entry whose TTL had elapsed, the other key still live
C23_Witness ==
    /\ cache.call.op = "get"
    /\ cache.call.returned = None
    /\ cache.call.key \in DOMAIN cache.call.before
    /\ cache.written[cache.call.key] # None
    /\ \E k \in CacheKeys \ {cache.call.key} : Live(k, cache.now) # None

\* C24: no cache operation raises; a set whose value cannot be serialised
\* returns False and leaves memory_cache as it was; a get whose lookup
\* fails returns None.
C24_CacheNeverRaises ==
    /\ cache.call.raised = FALSE
    /\ (cache.call.op = "set" /\ ~json_serializable(TheValue(cache.call.value))) =>
          /\ cache.call.returned = FALSE
          /\ cache.memory_cache = cache.call.before
    /\ (/\ cache.call.op = "get"
        /\ cache.call.key \in DOMAIN cache.call.before
        /\ ComparisonRaises(cache.call.before[cache.call.key])) =>
          cache.call.returned = None

\* a failed set over a live entry of the same key
C24_Witness ==
    /\ cache.call.op = "set"
    /\ ~json_serializable(TheValue(cache.call.value))
    /\ cache.call.returned = FALSE
    /\ cache.call.key \in DOMAIN cache.memory_cache
    /\ Live(cache.call.key, cache.now) # None

(***************************************************************************)
(* core/caching.py: _generate_cache_key and RecommendationCache.  The JSON *)
(* text is a tuple of characters; a dict key's name is one token between   *)
(* its quotes.  md5 is taken to be free of collisions on these texts.      *)
(***************************************************************************)
MaxSets == 1

ord(c) ==
    CASE c = " " -> 32
      [] c = "\"" -> 34
      [] c = "," -> 44
      [] c = "1" -> 49
      [] c = "2" -> 50
      [] c = "I" -> 73
      [] c = "V" -> 86
      [] c = "\\" -> 92
      [] c = "a" -> 97
      [] c = "b" -> 98
      [] OTHER -> 0

\* Python's str.__lt__: by code point, a proper prefix first
RECURSIVE str_lt(_, _)
str_lt(a, b) ==
    IF b = <<>> THEN FALSE
    ELSE IF a = <<>> THEN TRUE
    ELSE IF ord(Head(a)) # ord(Head(b)) THEN ord(Head(a)) < ord(Head(b))
    ELSE str_lt(Tail(a), Tail(b))

RECURSIVE insert_sorted(_, _)
insert_sorted(list, s) ==
    IF list = <<>> THEN <<s>>
    ELSE IF str_lt(s, Head(list)) THEN <<s>> \o list
    ELSE <<Head(list)>> \o insert_sorted(Tail(list), s)

\* sorted(ingredients)
RECURSIVE sorted(_)
sorted(list) ==
    IF list = <<>> THEN <<>>
    ELSE insert_sorted(sorted(SubSeq(list, 1, Len(list) - 1)), list[Len(list)])

json_str_unescaped(s) == <<"\"">> \o s \o <<"\"">>

\* json.dumps of a str: quotes around, quote and backslash escaped
RECURSIVE json_escape(_)
json_escape(s) ==
    IF s = <<>> THEN <<>>
    ELSE (IF Head(s) \in {"\"", "\\"} THEN <<"\\", Head(s)>> ELSE <<Head(s)>>)
         \o json_escape(Tail(s))

json_str(s) == <<"\"">> \o json_escape(s) \o <<"\"">>

\* json.dumps of an int (two digits are enough here)
json_int(n) ==
    LET digit(d) == CASE d = 0 -> "0" [] d = 1 -> "1" [] d = 2 -> "2"
                      [] d = 3 -> "3" [] d = 4 -> "4" [] d = 5 -> "5"
                      [] d = 6 -> "6" [] d = 7 -> "7" [] d = 8 -> "8"
                      [] OTHER -> "9"
    IN  IF n < 10 THEN <<digit(n)>> ELSE <<digit(n \div 10), digit(n % 10)>>

\* json.dumps of an Optional[str]
json_optional_str(o) ==
    IF o = None THEN <<"n", "u", "l", "l">> ELSE json_str(TheValue(o))

\* json.dumps of a list of str
RECURSIVE json_items(_)
json_items(list) ==
    IF list = <<>> THEN <<>>
    ELSE IF Len(list) = 1 THEN json_str(list[1])
    ELSE json_str(list[1]) \o <<",", " ">> \o json_items(Tail(list))

json_list(list) == <<"[">> \o json_items(list) \o <<"]">>

member(name, text) == <<"\"", name, "\"", ":", " ">> \o text

md5_hexdigest(data_str) == <<"md5">> \o data_str

\* the key both methods of RecommendationCache build: json.dumps with
\* sort_keys=True puts the four members in the order of their names
recommendations_key(ingredients, cuisine_filter, diet_filter, max_results) ==
    <<"recommendations", ":">> \o
    md5_hexdigest(
        <<"{">>
        \o member("cuisine_filter", json_optional_str(cuisine_filter)) \o <<",", " ">>
        \o member("diet_filter", json_optional_str(diet_filter)) \o <<",", " ">>
        \o member("ingredients", json_list(sorted(ingredients))) \o <<",", " ">>
        \o member("max_results", json_int(max_results))
        \o <<"}">>)

default_ttl == 3600

CachedIngredients ==
    { << <<"a">>, <<"b">> >>,
      << <<"b">>, <<"a">> >>,
      << <<"a">> >>,
      << <<"a", "\"", ",", " ", "\"", "b">> >> }

CachedFilters ==
    { <<None, None>>, <<Some(<<"I">>), None>>, <<None, Some(<<"V">>)>> }

CachedCounts == {1, 10}

Recommendations == { [type |-> "str", v |-> <<"x">>], [type |-> "str", v |-> <<"y">>] }

\* a Python dict as its items in insertion order; a key is a str or an int
StrKey(s) == [type |-> "str", s |-> s, n |-> 0]

IntKey(n) == [type |-> "int", s |-> <<>>, n |-> n]

DictKeys == {StrKey(<<"a">>), StrKey(<<"b">>), StrKey(<<"1">>), IntKey(1)}

DictValues == {1, 2}

PyDicts ==
    { <<item>> : item \in DictKeys \X DictValues }
    \cup { <<p[1], p[2]>> :
               p \in {x \in (DictKeys \X DictValues) \X (DictKeys \X DictValues) :
                         x[1][1] # x[2][1]} }

\* dict == dict: the same keys with the same values, whatever the order
dict_eq(d1, d2) == Elements(d1) = Elements(d2)

\* sorted(dct.items()) compares the keys; str against int raises TypeError
SortRaises(d) == \E i, j \in 1..Len(d) : d[i][1].type # d[j][1].type

key_lt(k1, k2) ==
    IF k1.type = "int" THEN k1.n < k2.n ELSE str_lt(k1.s, k2.s)

RECURSIVE insert_item(_, _)
insert_item(items, item) ==
    IF items = <<>> THEN <<item>>
    ELSE IF key_lt(item[1], Head(items)[1]) THEN <<item>> \o items
    ELSE <<Head(items)>> \o insert_item(Tail(items), item)

RECURSIVE sorted_items(_)
sorted_items(d) ==
    IF d = <<>> THEN <<>>
    ELSE insert_item(sorted_items(SubSeq(d, 1, Len(d) - 1)), d[Len(d)])

\* the encoder writes an int key as the str of its digits
json_key(k) == IF k.type = "int" THEN json_str(json_int(k.n)) ELSE json_str(k.s)

RECURSIVE json_members(_)
json_members(items) ==
    IF items = <<>> THEN <<>>
    ELSE json_key(items[1][1]) \o <<":", " ">> \o json_int(items[1][2])
         \o (IF Len(items) = 1 THEN <<>> ELSE <<",", " ">>)
         \o json_members(Tail(items))

\* json.dumps(data, sort_keys=True) of a dict
json_dumps_sort_keys(d) == <<"{">> \o json_members(sorted_items(d)) \o <<"}">>

\* _generate_cache_key(prefix, data) for a dict
generate_cache_key(prefix, d) ==
    <<prefix, ":">> \o md5_hexdigest(json_dumps_sort_keys(d))

RecIdle ==
    [op |-> "none", params |-> <<>>, returned |-> None,
     d1 |-> <<>>, d2 |-> <<>>, key1 |-> <<>>, key2 |-> <<>>]

\* RecommendationCache(CacheManager(enable_redis=False)); written remembers
\* what was stored for each request, the ingredients sorted
InitRecCache ==
    /\ settings = DefaultSettings
    /\ scorer = None
    /\ hybrid = None
    /\ tfidf = [artifacts |-> TRUE, is_loaded |-> FALSE]
    /\ embed = [artifacts |-> TRUE, encoder_ok |-> TRUE, is_loaded |-> FALSE]
    /\ IdleSlots
    /\ hang = FALSE /\ norm = None /\ filt = None
    /\ manager = None /\ threads = None
    /\ heap = None /\ backend = None
    /\ cache = [memory_cache |-> <<>>, now |-> 0, call |-> RecIdle,
                sets |-> 0, written |-> {}]

\* the ingredients as a multiset
BagOf(list) ==
    [x \in Elements(list) |-> Cardinality({i \in 1..Len(list) : list[i] = x})]

SameRequest(p, q) ==
    /\ BagOf(p[1]) = BagOf(q[1])
    /\ p[2] = q[2]
    /\ p[3] = q[3]
    /\ p[4] = q[4]

\* RecommendationCache.set_recommendations; ttl is left to default_ttl
SetRecommendations(ingredients, cuisine_filter, diet_filter, max_results, recommendations) ==
    LET cache_key == recommendations_key(ingredients, cuisine_filter,
                                         diet_filter, max_results)
        params == <<ingredients, cuisine_filter, diet_filter, max_results>>
        out == cache_set(cache.memory_cache, cache.now, cache_key,
                         recommendations, default_ttl)
    IN  /\ cache.call.op # "keys"
        /\ cache.sets < MaxSets
        /\ cache' = [cache EXCEPT
                        !.memory_cache = out.memory_cache,
                        !.sets = @ + 1,
                        !.call = [RecIdle EXCEPT !.op = "set", !.params = params,
                                                 !.returned = out.returned],
                        !.written = {w \in @ : ~SameRequest(w.params, params)}
                                    \cup {[params |-> params,
                                           value |-> recommendations]}]
        /\ CacheStep

\* RecommendationCache.get_recommendations
GetRecommendations(ingredients, cuisine_filter, diet_filter, max_results) ==
    LET cache_key == recommendations_key(ingredients, cuisine_filter,
                                         diet_filter, max_results)
        out == cache_get(cache.memory_cache, cache.now, cache_key)
    IN  /\ cache.call.op # "keys"
        /\ cache' = [cache EXCEPT
                        !.memory_cache = out.memory_cache,
                        !.call = [RecIdle EXCEPT
                                     !.op = "get",
                                     !.params = <<ingredients, cuisine_filter,
                                                  diet_filter, max_results>>,
                                     !.returned = out.returned]]
        /\ CacheStep

\* _generate_cache_key on two dicts; the function is pure, so the pair is
\* taken on a new cache
GenerateCacheKeys(d1, d2) ==
    /\ cache.call.op = "none"
    /\ ~SortRaises(d1) /\ ~SortRaises(d2)
    /\ cache' = [cache EXCEPT
                    !.call = [RecIdle EXCEPT
                                 !.op = "keys", !.d1 = d1, !.d2 = d2,
                                 !.key1 = generate_cache_key("prefix", d1),
                                 !.key2 = generate_cache_key("prefix", d2)]]
    /\ CacheStep

NextRecCache ==
    \/ \E ingredients \in CachedIngredients, f \in CachedFilters,
          max_results \in CachedCounts, recommendations \in Recommendations :
          SetRecommendations(ingredients, f[1], f[2], max_results, recommendations)
    \/ \E ingredients \in CachedIngredients, f \in CachedFilters,
          max_results \in CachedCounts :
          GetRecommendations(ingredients, f[1], f[2], max_results)
    \/ \E d1 \in PyDicts, d2 \in PyDicts : GenerateCacheKeys(d1, d2)

SpecRecCache == InitRecCache /\ [][NextRecCache]_vars

\* what was stored for a request equal to params up to ingredient order
StoredFor(params) ==
    {w.value : w \in {x \in cache.written : SameRequest(x.params, params)}}

RecommendationKeyContract ==
    cache.call.op = "get" => cache.call.returned = StoredFor(cache.call.params)

StrKeyed(d) == \A i \in 1..Len(d) : d[i][1].type = "str"

MaxLoaderCalls == 3

Recommenders == {"tfidf", "embedding"}

LoaderOutcomes == {"raises", "returns", "returns_unsized"}

\* TFIDFRecommender.__init__ / EmbeddingRecommender.__init__
NewRecommender == [components |-> None, is_loaded |-> FALSE]

Loaded(rec, raised, invoked) ==
    [rec |-> rec, raised |-> raised, invoked |-> invoked]

load_models_without_guard(rec, outcome, object) ==
    IF outcome = "raises"
    THEN Loaded(rec, TRUE, TRUE)
    ELSE Loaded([components |-> Some(object), is_loaded |-> TRUE],
                outcome = "returns_unsized", TRUE)

\* load_models: the tuple assignment happens only when the loader returns;
\* the log line after _is_loaded = True takes len(self._recipe_metadata)
\* inside the same try block
load_models(rec, outcome, object) ==
    IF rec.is_loaded
    THEN Loaded(rec, FALSE, FALSE)
    ELSE IF outcome = "raises"
    THEN Loaded(rec, TRUE, TRUE)
    ELSE Loaded([components |-> Some(object), is_loaded |-> TRUE],
                outcome = "returns_unsized", TRUE)

\* the head of every query method: if not self._is_loaded: self.load_models()
query_loads(rec, outcome, object) ==
    IF ~rec.is_loaded
    THEN load_models(rec, outcome, object)
    ELSE Loaded(rec, FALSE, FALSE)

NoLoadCall ==
    [op |-> "none", r |-> "tfidf", outcome |-> "returns", before |-> NewRecommender,
     raised |-> FALSE, invoked |-> FALSE]

InitLoad ==
    /\ settings = DefaultSettings
    /\ scorer = None
    /\ hybrid = None
    /\ tfidf = [artifacts |-> TRUE, is_loaded |-> FALSE]
    /\ embed = [artifacts |-> TRUE, encoder_ok |-> TRUE, is_loaded |-> FALSE]
    /\ IdleSlots
    /\ hang = FALSE /\ norm = None /\ filt = None
    /\ manager = None /\ threads = None
    /\ heap = None /\ cache = None
    /\ backend = [rec |-> [r \in Recommenders |-> NewRecommender],
                  loader_calls |-> 0,
                  returned |-> [r \in Recommenders |-> FALSE],
                  call |-> NoLoadCall]

LoadStep ==
    /\ UNCHANGED service
    /\ UNCHANGED <<hang, norm, filt, manager, threads, heap, cache>>

AfterCall(op, r, outcome, out) ==
    backend' =
        [rec |-> [backend.rec EXCEPT ![r] = out.rec],
         loader_calls |-> backend.loader_calls + (IF out.invoked THEN 1 ELSE 0),
         returned |-> [backend.returned EXCEPT
                          ![r] = @ \/ (out.invoked /\ outcome # "raises")],
         call |-> [op |-> op, r |-> r, outcome |-> outcome,
                   before |-> backend.rec[r],
                   raised |-> out.raised, invoked |-> out.invoked]]

\* recommender.load_models()
LoadModels(r, outcome) ==
    /\ backend.loader_calls < MaxLoaderCalls
    /\ AfterCall("load_models", r, outcome,
                 load_models(backend.rec[r], outcome, backend.loader_calls + 1))
    /\ LoadStep

\* recommender.get_top_recommendations(...) and the other query methods
QueryRecommender(r, outcome) ==
    /\ backend.loader_calls < MaxLoaderCalls
    /\ AfterCall("query", r, outcome,
                 query_loads(backend.rec[r], outcome, backend.loader_calls + 1))
    /\ LoadStep

NextLoad ==
    \/ \E r \in Recommenders, outcome \in LoaderOutcomes : LoadModels(r, outcome)
    \/ \E r \in Recommenders, outcome \in LoaderOutcomes : QueryRecommender(r, outcome)

SpecLoad == InitLoad /\ [][NextLoad]_vars

\* C25: a recommender is marked loaded exactly when its loader has
\* returned; a call whose loader raises propagates the error and leaves
\* the recommender not loaded with no components; once loaded, load_models
\* and queries never invoke the loader again and leave the components as
\* they are.
C25_LazyLoadTwoStates ==
    /\ \A r \in Recommenders :
          /\ backend.rec[r].is_loaded <=> backend.returned[r]
          /\ ~backend.rec[r].is_loaded => backend.rec[r].components = None
          /\ backend.rec[r].is_loaded => backend.rec[r].components # None
    /\ (backend.call.invoked /\ backend.call.outcome = "raises") =>
          /\ backend.call.raised
          /\ backend.rec[backend.call.r] = NewRecommender
    /\ (backend.call.op # "none" /\ backend.call.before.is_loaded) =>
          /\ ~backend.call.invoked
          /\ ~backend.call.raised
          /\ backend.rec[backend.call.r] = backend.call.before

\* a load that failed, then one that succeeded, then a load_models call on
\* the loaded recommender
C25_Witness ==
    /\ backend.call.op = "load_models"
    /\ backend.call.before.is_loaded
    /\ backend.call.before.components = Some(2)
    /\ backend.loader_calls = 2

(***************************************************************************)
(* Order of a backend's candidate list                                     *)
(***************************************************************************)
\* the list is cut to top_n, holds no score below min_score, and runs by
\* score descending, equal scores by recipe id ascending
RankedByScoreThenId(list, top_n, min_score) ==
    /\ Len(list) <= top_n
    /\ \A i \in 1..Len(list) : list[i].similarity_score >= min_score
    /\ \A i, j \in 1..Len(list) :
          i < j =>
             \/ list[i].similarity_score > list[j].similarity_score
             \/ /\ list[i].similarity_score = list[j].similarity_score
                /\ list[i].recipe_id < list[j].recipe_id

\* C26: what each backend's get_top_recommendations returned for a query
\* has at most top_n candidates, none below min_score, sorted by score
\* descending, candidates of equal score by ascending recipe id.
C26_TiesByRecipeId ==
    \A q \in Slots :
       BackendsReturned(q) =>
          /\ RankedByScoreThenId(tfidf_results[q], args[q].max_results * 2, 0)
          /\ RankedByScoreThenId(embedding_results[q], args[q].max_results * 2, 0)

(***************************************************************************)
(* Filters of the backends' candidate loop                                 *)
(***************************************************************************)
\* every entry has the filter's cuisine, and the diet filter among its labels
ExactLabels(list, cuisine_filter, diet_filter) ==
    \A i \in 1..Len(list) :
       /\ Truthy(cuisine_filter) =>
             lower(list[i].cuisine) = lower(TheValue(cuisine_filter))
       /\ Truthy(diet_filter) =>
             lower(TheValue(diet_filter)) \in DietLabels(list[i])

\* C27: every candidate a backend returns under a cuisine filter has that
\* cuisine ignoring case, and every candidate returned under a diet filter
\* has the filter, ignoring case, as one of its diet labels; a filter that
\* is only a part of a label matches nothing.
C27_ExactLabelFilters ==
    \A q \in Slots :
       BackendsReturned(q) =>
          /\ ExactLabels(tfidf_results[q], args[q].cuisine_filter, args[q].diet_filter)
          /\ ExactLabels(embedding_results[q], args[q].cuisine_filter, args[q].diet_filter)

(***************************************************************************)
(* Load-time detection of missing artefacts                                *)
(***************************************************************************)
\* C28: a missing or unloadable artefact is fatal at load time: no query is
\* served with a backend reported as available whose artefacts were never
\* successfully loaded.
C28_LoadFailureFatal ==
    \A q \in Slots :
       (pc[q] = "done" /\ output[q].status = "returned") =>
          /\ ResponseModelInfo(q).tfidf_available => tfidf.is_loaded
          /\ ResponseModelInfo(q).embedding_available => embed.is_loaded

(***************************************************************************)
(* core/model_manager.py: the lock around load_models and unload_models    *)
(***************************************************************************)
InLoadBody(t) ==
    threads[t].pc \in {"l_check", "l_simple", "l_hybrid", "l_loaded", "l_release"}

InUnloadBody(t) ==
    threads[t].pc \in {"u_simple", "u_hybrid", "u_loaded", "u_release"}

\* C29: load_models is serialised by the lock: between two unloads the
\* recommenders are constructed at most once whatever the interleaving of
\* load_models and get_recommender calls, every load_models call returns a
\* status that reports both recommenders constructed, and no two threads
\* are inside the bodies of load_models and unload_models at the same time.
C29_LoadSerialised ==
    /\ manager.constructions <= 1
    /\ \A t \in Threads :
          threads[t].load_returned =>
             threads[t].status.simple_loaded /\ threads[t].status.hybrid_loaded
    /\ \A t, u \in Threads :
          (t # u /\ (InLoadBody(t) \/ InUnloadBody(t)))
             => ~(InLoadBody(u) \/ InUnloadBody(u))

\* one thread constructed the recommenders, the other one's load_models,
\* called lazily by get_recommender while nothing was loaded, found them
C29_Witness ==
    /\ manager.constructions = 1
    /\ threads["t1"].op = "load" /\ threads["t1"].pc = "ret"
    /\ threads["t2"].op = "get" /\ threads["t2"].load_returned
    /\ threads["t2"].status = [simple_loaded |-> TRUE, hybrid_loaded |-> TRUE]

====
